---- MODULE Spec2Model ----
(***************************************************************************)
(* Interception-and-cache engine of ML-Leslie/ebpf-NFS.                    *)
(*                                                                         *)
(* Two variants share one module; `variant` (fixed by Init) says which     *)
(* program pair is running:                                                *)
(*   "http": fileserver.bpf.c  (fileserver_ingress) + fileserver.c         *)
(*   "nfs" : nfs_server.bpf.c (nfs_server_tc)      + nfs_server.c          *)
(* Frames are byte sequences; the handlers read them at the offsets the    *)
(* C code computes.  Times are in seconds: both sides of the one TTL       *)
(* comparison of the code are multiples of 10^9 ns.                        *)
(***************************************************************************)
EXTENDS Integers, Sequences, FiniteSets, TLC

VARIABLES
    variant,        \* "http" | "nfs"
    enable_kernel_processing, \* .rodata switch of the loaded BPF object
    enable_kernel_cache,      \* env.enable_kernel_cache (false after -n)
    now,            \* seconds since boot (bpf_ktime_get_ns / 10^9)
    file_cache,     \* http: key -> file_cache_entry
    http_cached_at, \* http: key -> time of the last bpf_map_update_elem (observer)
    conn_track,     \* http: client ip -> last request time
    stats,          \* http: BPF statistics array
    events,         \* http: committed records of the ring buffer, oldest first
    ustats,         \* control plane's own statistics struct (either variant)
    sock,           \* payloads delivered to the control plane's socket
    nfs_file_cache, \* nfs: key -> nfs_file_cache_entry
    fh_to_name,     \* nfs: handle -> name
    client_track,   \* nfs: client ip -> nfs_client_state
    nfs_stats,      \* nfs: BPF statistics array
    nfs_events,     \* nfs: committed records of the ring buffer
    precached,      \* nfs: main() is past its pre-cache step
    arrived,        \* frames that have arrived so far (observer, bounds the run)
    last,           \* what the most recent step did (observer)
    inv,            \* interleaved runs: each invocation's position and locals
    elem,           \* interleaved runs: the elements of the file_cache hash map
    bucket,         \* interleaved runs: key -> the element of file_cache linked for it
    loop,           \* shutdown runs: the control plane's position in its main loop
    read,           \* range-check runs: the READ request record and its outcome
    parse,          \* parser runs: the payload handed to the engine and what it made of it
    chan            \* channel runs: the ring buffer's records and what the consumer received

vars == <<variant, enable_kernel_processing, enable_kernel_cache, now,
          file_cache, http_cached_at, conn_track, stats, events, ustats, sock,
          nfs_file_cache, fh_to_name, client_track, nfs_stats, nfs_events,
          precached, arrived, last, inv, elem, bucket, loop, read, parse, chan>>

httpVars == <<file_cache, http_cached_at, conn_track, stats, events>>
nfsVars  == <<nfs_file_cache, fh_to_name, client_track, nfs_stats, nfs_events, precached>>
concVars == <<inv, elem, bucket, loop, read, parse, chan>>
cfgVars  == <<variant, enable_kernel_processing, enable_kernel_cache>>

(***************************************************************************)
(* Bounds of the model.                                                    *)
(***************************************************************************)
MaxReq      == 2    \* frames that arrive in a run
MaxClock    == 400  \* seconds of a run that are observed
TickSeconds == 400  \* seconds per clock advance
RingSlots   == 2    \* records the ring buffer holds (256 KiB in the code)
MaxSock     == 1    \* requests waiting in the control plane's socket
BootEpoch   == 1000 \* wall-clock seconds at boot (time(NULL) - ktime)

(***************************************************************************)
(* Program constants.                                                      *)
(***************************************************************************)
TC_ACT_OK            == 0
ETH_P_IP             == 2048
IPPROTO_TCP          == 6
IPPROTO_UDP          == 17
HTTP_UNKNOWN         == 0
HTTP_GET             == 1
HTTP_POST            == 2
HTTP_PUT             == 3
HTTP_DELETE          == 4
FILE_OP_SUCCESS      == 0
FILE_OP_NOT_FOUND    == 1
FILE_OP_FORWARD_TO_USER == 4
MAX_PACKET_SIZE      == 1024
max_file_size        == 4096
cache_ttl_seconds    == 300
server_port          == 8080
NFS_PORT             == 2049
RPC_CALL             == 0
RPC_PROGRAM_NFS      == 100003
NFS_VERSION_3        == 3
NFSPROC3_NULL        == 0
NFSPROC3_GETATTR     == 1
NFSPROC3_READ        == 6
NFSPROC3_WRITE       == 7
NFS_OP_SUCCESS       == 0
NFS_OP_FORWARD_TO_USER == 10002
MAX_NFS_DATA_SIZE    == 8192
max_cached_file_size == 4096
RpcHeaderSize        == 32

(***************************************************************************)
(* Characters and byte strings.                                            *)
(***************************************************************************)
Lower == <<"a","b","c","d","e","f","g","h","i","j","k","l","m",
           "n","o","p","q","r","s","t","u","v","w","x","y","z">>
Upper == <<"A","B","C","D","E","F","G","H","I","J","K","L","M",
           "N","O","P","Q","R","S","T","U","V","W","X","Y","Z">>

Chars == {Lower[i] : i \in 1..26} \cup {Upper[i] : i \in 1..26}
         \cup {" ", "/", ".", "?", "1", "\t", "\n", "\r"}

\* ASCII codes of the characters the model writes.
Code == [c \in Chars |->
    IF \E i \in 1..26 : Lower[i] = c THEN 96 + (CHOOSE i \in 1..26 : Lower[i] = c)
    ELSE IF \E i \in 1..26 : Upper[i] = c THEN 64 + (CHOOSE i \in 1..26 : Upper[i] = c)
    ELSE CASE c = " "  -> 32
           [] c = "/"  -> 47
           [] c = "."  -> 46
           [] c = "?"  -> 63
           [] c = "1"  -> 49
           [] c = "\t" -> 9
           [] c = "\n" -> 10
           [] c = "\r" -> 13]

Ord(c) == Code[c]

S(t) == [i \in 1..Len(t) |-> Ord(t[i])]

\* A C string held in a zero-initialised array: the bytes before the first NUL.
RECURSIVE CStr(_)
CStr(b) == IF b = <<>> \/ Head(b) = 0 THEN <<>> ELSE <<Head(b)>> \o CStr(Tail(b))

\* A fixed-size map key (char[256]): its bytes up to the last non-zero one.
RECURSIVE KeyOf(_)
KeyOf(b) == IF b = <<>> THEN <<>>
            ELSE IF b[Len(b)] = 0 THEN KeyOf(SubSeq(b, 1, Len(b) - 1))
            ELSE b

Zeros(n) == [i \in 1..n |-> 0]

\* Byte at offset off (0-based) of a frame.
B(f, off) == f[off + 1]
Be16(f, off) == B(f, off) * 256 + B(f, off + 1)

(***************************************************************************)
(* Frames.  A descriptor says how a frame is built; Bytes(d) is what the   *)
(* handlers see.  cut > 0 truncates the frame to cut bytes.                *)
(***************************************************************************)
EthHdr(proto) == Zeros(12) \o <<proto \div 256, proto % 256>>

IpHdr(ihl, protocol, src) ==
    <<64 + ihl, 0, 0, 0, 0, 0, 0, 0, 64, protocol, 0, 0, 10, 0, 0, src, 10, 0, 0, 254>>
    \o (IF ihl > 5 THEN Zeros((ihl - 5) * 4) ELSE <<>>)

TcpHdr(sport, dport, doff) ==
    <<sport \div 256, sport % 256, dport \div 256, dport % 256>>
    \o Zeros(8) \o <<doff * 16, 24>> \o Zeros(6)
    \o (IF doff > 5 THEN Zeros((doff - 5) * 4) ELSE <<>>)

UdpHdr(sport, dport) ==
    <<sport \div 256, sport % 256, dport \div 256, dport % 256, 0, 0, 0, 0>>

Bytes(d) ==
    LET whole == EthHdr(d.eth) \o IpHdr(d.ihl, d.proto, d.src)
                 \o (IF d.proto = IPPROTO_UDP THEN UdpHdr(d.sport, d.dport)
                     ELSE TcpHdr(d.sport, d.dport, d.doff))
                 \o d.payload
    IN IF d.cut > 0 /\ d.cut < Len(whole) THEN SubSeq(whole, 1, d.cut) ELSE whole

Frame(eth, proto, ihl, doff, dport, src, payload, cut) ==
    [eth |-> eth, proto |-> proto, ihl |-> ihl, doff |-> doff, sport |-> 40000,
     dport |-> dport, src |-> src, payload |-> payload, cut |-> cut]

\* Request lines of the file-fetch variant.
ReqLine(token, path) ==
    token \o S(<<" ", "/">>) \o path \o S(<<" ","H","T","T","P","/","1",".","1","\r","\n">>)

tGET    == S(<<"G","E","T">>)
tPOST   == S(<<"P","O","S","T">>)
tPUT    == S(<<"P","U","T">>)
tDELETE == S(<<"D","E","L","E","T","E">>)
tHEAD   == S(<<"H","E","A","D">>)

nIndex  == S(<<"i","n","d","e","x",".","h","t","m","l">>)
nTest   == S(<<"t","e","s","t",".","t","x","t">>)
nNew    == S(<<"n","e","w",".","h","t","m","l">>)
nStatic == S(<<"s","t","a","t","i","c",".","h","t","m","l">>)
nBig    == S(<<"s","t","a","t",".","b","i","n">>)

HttpFrame(token, path, src) ==
    Frame(ETH_P_IP, IPPROTO_TCP, 5, 5, server_port, src, ReqLine(token, path), 0)

\* Well-formed requests to the listening port.
HttpRequests ==
    { HttpFrame(tGET, p, 1) : p \in {<<>>, nTest, nNew, nStatic, nBig} }
    \cup { HttpFrame(tPOST, nTest, 2) }

\* Frames the file-fetch handler must leave alone, and odd but recognized ones.
HttpOddFrames ==
    { HttpFrame(tHEAD, nTest, 1),                                        \* unknown token
      Frame(2054, IPPROTO_TCP, 5, 5, server_port, 1, ReqLine(tGET, nTest), 0), \* ARP
      Frame(ETH_P_IP, IPPROTO_UDP, 5, 5, server_port, 1, ReqLine(tGET, nTest), 0),
      Frame(ETH_P_IP, IPPROTO_TCP, 5, 5, 9090, 1, ReqLine(tGET, nTest), 0), \* other port
      Frame(ETH_P_IP, IPPROTO_TCP, 5, 5, 80, 1, ReqLine(tGET, nTest), 0),   \* port 80
      Frame(ETH_P_IP, IPPROTO_TCP, 5, 5, server_port, 1, ReqLine(tGET, nTest), 30),
      Frame(ETH_P_IP, IPPROTO_TCP, 5, 5, server_port, 1, ReqLine(tGET, nTest), 50),
      Frame(ETH_P_IP, IPPROTO_TCP, 5, 5, server_port, 1, tGET, 0) }          \* 3 bytes

HttpFrames == HttpRequests \cup HttpOddFrames

NoFrame == Frame(0, 0, 0, 0, 0, 0, <<>>, 0)

(***************************************************************************)
(* File-fetch engine: fileserver.bpf.c                                     *)
(***************************************************************************)
EthLen == 14
IpLen  == 20
TcpLen == 20
UdpLen == 8

\* parse_http_method: p is the payload's offset in frame f, len the payload length.
parse_http_method(f, p, len) ==
    LET end == Len(f)
        c(i) == B(f, p + i)
    IN  IF p + 3 > end \/ len < 3 THEN HTTP_UNKNOWN
        ELSE IF c(0) = Ord("G") /\ c(1) = Ord("E") /\ c(2) = Ord("T") THEN HTTP_GET
        ELSE IF p + 4 <= end /\ len >= 4 /\ c(0) = Ord("P") /\ c(1) = Ord("O")
                /\ c(2) = Ord("S") /\ c(3) = Ord("T") THEN HTTP_POST
        ELSE IF c(0) = Ord("P") /\ c(1) = Ord("U") /\ c(2) = Ord("T") THEN HTTP_PUT
        ELSE IF p + 6 <= end /\ len >= 6 /\ c(0) = Ord("D") /\ c(1) = Ord("E")
                /\ c(2) = Ord("L") /\ c(3) = Ord("E") /\ c(4) = Ord("T")
                /\ c(5) = Ord("E") THEN HTTP_DELETE
        ELSE HTTP_UNKNOWN

\* The loop of extract_filename from index i with j bytes copied so far.
RECURSIVE ExtractLoop(_, _, _, _, _)
ExtractLoop(f, p, len, i, acc) ==
    IF ~(i < 13 /\ i < len /\ Len(acc) < 8) THEN acc
    ELSE IF p + i >= Len(f) THEN acc
    ELSE IF B(f, p + i) \in {Ord(" "), Ord("?"), Ord("\r"), Ord("\n")} THEN acc
    ELSE ExtractLoop(f, p, len, i + 1, Append(acc, B(f, p + i)))

\* extract_filename: the bytes written to filename[] before the terminator.
extract_filename(f, p, len) ==
    IF len < 5 \/ p + 5 > Len(f) THEN <<>>
    ELSE IF B(f, p) = Ord("G") /\ B(f, p + 1) = Ord("E") /\ B(f, p + 2) = Ord("T")
            /\ B(f, p + 3) = Ord(" ") /\ B(f, p + 4) = Ord("/")
         THEN ExtractLoop(f, p, len, 5, <<>>)
    ELSE <<>>

\* Byte i of a zero-padded name.
At(name, i) == IF i <= Len(name) THEN name[i] ELSE 0

check_file_exists(filename) ==
    \/ At(filename, 1) = Ord("i") /\ At(filename, 2) = Ord("n") /\ At(filename, 3) = Ord("d")
    \/ At(filename, 1) = Ord("s") /\ At(filename, 2) = Ord("t") /\ At(filename, 3) = Ord("a")
    \/ At(filename, 1) = Ord("t") /\ At(filename, 2) = Ord("e") /\ At(filename, 3) = Ord("s")

\* The header walk with the destination-port test left out.
HttpWalkAnyPort(f) ==
    LET end  == Len(f)
        tcp  == EthLen + (B(f, EthLen) % 16) * 4
        pay  == tcp + (B(f, tcp + 12) \div 16) * 4
        plen == (end - pay) % 65536
        no   == [ok |-> FALSE, pay |-> 0, plen |-> 0, method |-> HTTP_UNKNOWN]
    IN  IF EthLen > end THEN no
        ELSE IF Be16(f, 12) # ETH_P_IP THEN no
        ELSE IF EthLen + IpLen > end THEN no
        ELSE IF B(f, EthLen + 9) # IPPROTO_TCP THEN no
        ELSE IF tcp + TcpLen > end THEN no
        ELSE IF pay >= end THEN no
        ELSE IF plen < 4 THEN no
        ELSE IF parse_http_method(f, pay, plen) = HTTP_UNKNOWN THEN no
        ELSE [ok |-> TRUE, pay |-> pay, plen |-> plen,
              method |-> parse_http_method(f, pay, plen)]

\* Lines 163-198: the header walk.  ok = FALSE is every early `return TC_ACT_OK`.
HttpWalk(f) ==
    LET end  == Len(f)
        tcp  == EthLen + (B(f, EthLen) % 16) * 4
        pay  == tcp + (B(f, tcp + 12) \div 16) * 4
        plen == (end - pay) % 65536
        no   == [ok |-> FALSE, pay |-> 0, plen |-> 0, method |-> HTTP_UNKNOWN]
    IN  IF EthLen > end THEN no
        ELSE IF Be16(f, 12) # ETH_P_IP THEN no
        ELSE IF EthLen + IpLen > end THEN no
        ELSE IF B(f, EthLen + 9) # IPPROTO_TCP THEN no
        ELSE IF tcp + TcpLen > end THEN no
        ELSE IF Be16(f, tcp + 2) # 80 /\ Be16(f, tcp + 2) # 8080 THEN no
        ELSE IF pay >= end THEN no
        ELSE IF plen < 4 THEN no
        ELSE IF parse_http_method(f, pay, plen) = HTTP_UNKNOWN THEN no
        ELSE [ok |-> TRUE, pay |-> pay, plen |-> plen,
              method |-> parse_http_method(f, pay, plen)]

(***************************************************************************)
(* Shared helpers of the state.                                            *)
(***************************************************************************)
Has(map, k) == k \in DOMAIN map
Put(map, k, v) == [x \in DOMAIN map \cup {k} |-> IF x = k THEN v ELSE map[x]]
Bump(arr, i) == [arr EXCEPT ![i] = @ + 1]
EmptyMap == [x \in {} |-> 0]

\* Source address of the IPv4 header (ip->saddr), as its four bytes.
SrcAddr(f) == SubSeq(f, EthLen + 13, EthLen + 16)

\* What the network stack does with a frame the handler passed (TC_ACT_OK):
\* an intact segment or datagram for the listening socket is queued for the
\* control plane while the socket has room, and dropped otherwise.
Delivered(d, proto, port) ==
    d.eth = ETH_P_IP /\ d.proto = proto /\ d.dport = port /\ d.cut = 0
    /\ d.ihl >= 5 /\ d.payload # <<>>

Observed(actor, d, decision, key, op, resp) ==
    [actor |-> actor, frame |-> d, decision |-> decision, verdict |-> TC_ACT_OK,
     key |-> key, op |-> op, resp |-> resp, xid |-> 0]

\* An increment that also clears the entry's valid flag.
MarkHitInvalidate(cache, key) ==
    [cache EXCEPT ![key].cache_hits = @ + 1, ![key].valid = 0]

\* cache_entry->cache_hits++ on the looked-up map value (fileserver.bpf.c 235;
\* nfs_server.bpf.c 487, 541).
MarkHit(cache, key) == [cache EXCEPT ![key].cache_hits = @ + 1]

\* bpf_ringbuf_reserve succeeds while the ring has room for one more record.
RingHasRoom(ring, reserved) == Len(ring) + reserved < RingSlots

(***************************************************************************)
(* fileserver_ingress, lines 146-293.                                      *)
(***************************************************************************)
HttpReqEvent(ip, method, filename, pik) ==
    [type |-> "http_request", addr |-> ip, op |-> method, filename |-> filename,
     processed_in_kernel |-> pik, result |-> 0, file_size |-> 0,
     forwarded_to_user |-> 0, from_cache |-> 0]

FileEvent(ip, operation, filename, size, fwd) ==
    [type |-> "file_event", addr |-> ip, op |-> 0, filename |-> filename,
     processed_in_kernel |-> 0, result |-> operation, file_size |-> size,
     forwarded_to_user |-> fwd, from_cache |-> 0]

\* The decision of lines 226-285 for a recognized request.
HttpDecision(method, filename) ==
    IF enable_kernel_processing # 0 /\ method = HTTP_GET
    THEN IF check_file_exists(filename)
         THEN IF Has(file_cache, KeyOf(filename)) /\ file_cache[KeyOf(filename)].valid # 0
              THEN "KernelServed"
              ELSE "ForwardToControlPlane"
         ELSE "NotFound"
    ELSE "ForwardToControlPlane"

\* The altered stack: a frame the handler saw is not handed on.
Consumed(d) == sock

HttpDeliver(d) ==
    IF Delivered(d, IPPROTO_TCP, server_port) /\ Len(sock) < MaxSock
    THEN Append(sock, d.payload) ELSE sock

\* Lines 163-208 on frame d: the part of the handler that reads only the frame.
HttpParsed(d) ==
    LET f == Bytes(d)
        w == HttpWalk(f)
        extracted == extract_filename(f, w.pay, w.plen)
    IN  IF ~w.ok THEN [ok |-> FALSE, method |-> HTTP_UNKNOWN, client_ip |-> <<>>,
                       filename |-> <<>>]
        ELSE [ok |-> TRUE, method |-> w.method, client_ip |-> SrcAddr(f),
              filename |-> IF Len(extracted) = 0 THEN nIndex ELSE extracted]

HttpParse == [d \in HttpFrames |-> HttpParsed(d)]

fileserver_ingress(d) ==
    LET w == HttpParse[d]
        client_ip == w.client_ip
        filename  == w.filename
        key       == KeyOf(filename)
        decision  == HttpDecision(w.method, filename)
        room2     == RingHasRoom(events, 1)
        entry     == file_cache[key]
    IN
    /\ variant = "http"
    /\ arrived < MaxReq
    /\ arrived' = arrived + 1
    /\ sock' = HttpDeliver(d)
    /\ UNCHANGED <<cfgVars, concVars, now, ustats, nfsVars>>
    /\ IF ~w.ok
       THEN /\ UNCHANGED httpVars
            /\ last' = Observed("engine", d, "PassThrough", <<>>, HTTP_UNKNOWN, "none")
       ELSE IF ~RingHasRoom(events, 0)
       THEN \* line 215: the request record cannot be reserved
            /\ stats' = Bump(stats, 0)
            /\ UNCHANGED <<file_cache, http_cached_at, conn_track, events>>
            /\ last' = Observed("engine", d, "NoDecision", key, w.method, "none")
       ELSE /\ last' = Observed("engine", d, decision, key, w.method, "none")
            /\ conn_track' = Put(conn_track, client_ip, now)
            /\ UNCHANGED http_cached_at
            /\ IF decision = "KernelServed"
               THEN /\ file_cache' = MarkHit(file_cache, key)
                    /\ stats' = Bump(Bump(stats, 0), 1)
                    /\ events' = events
                         \o <<HttpReqEvent(client_ip, w.method, filename, 1)>>
                         \o (IF room2
                             THEN <<FileEvent(client_ip, FILE_OP_SUCCESS, filename,
                                              entry.file_size, 0)>>
                             ELSE <<>>)
               ELSE IF decision = "NotFound"
               THEN /\ UNCHANGED file_cache
                    /\ stats' = Bump(Bump(stats, 0), 3)
                    /\ events' = events
                         \o <<HttpReqEvent(client_ip, w.method, filename, 0)>>
                         \o (IF room2
                             THEN <<FileEvent(client_ip, FILE_OP_NOT_FOUND, filename, 0, 1)>>
                             ELSE <<>>)
               ELSE /\ UNCHANGED file_cache
                    /\ stats' = Bump(Bump(stats, 0), 2)
                    /\ events' = events
                         \o <<HttpReqEvent(client_ip, w.method, filename, 0)>>
                         \o (IF room2 /\ enable_kernel_processing # 0 /\ w.method = HTTP_GET
                             THEN <<FileEvent(client_ip, FILE_OP_FORWARD_TO_USER,
                                              filename, 0, 1)>>
                             ELSE <<>>)

(***************************************************************************)
(* File-fetch control plane: fileserver.c                                  *)
(***************************************************************************)
\* The document root: regular files and their sizes (index.html is written by main).
DocRoot ==
    [n \in {nIndex, nTest, nNew, nStatic, nBig} |->
        CASE n = nIndex  -> 200
          [] n = nTest   -> 23
          [] n = nNew    -> 100
          [] n = nStatic -> 512
          [] n = nBig    -> 5000]

IsSpace(b) == b \in {32, 9, 10, 11, 12, 13}

RECURSIVE SkipSpace(_)
SkipSpace(b) == IF b # <<>> /\ IsSpace(Head(b)) THEN SkipSpace(Tail(b)) ELSE b

RECURSIVE TakeToken(_, _)
TakeToken(b, width) ==
    IF b = <<>> \/ width = 0 \/ IsSpace(Head(b)) THEN <<>>
    ELSE <<Head(b)>> \o TakeToken(Tail(b), width - 1)

\* One %Ns conversion of sscanf: the token and the rest of the input.
ScanS(b, width) ==
    LET t == TakeToken(SkipSpace(b), width)
    IN [tok |-> t, rest |-> SubSeq(SkipSpace(b), Len(t) + 1, Len(SkipSpace(b)))]

\* sscanf(request, "%15s %255s %15s", method, path, version), lines 257-267.
ParseRequestLine(request) ==
    LET r  == CStr(request)
        m  == ScanS(r, 15)
        pa == ScanS(m.rest, 255)
        v  == ScanS(pa.rest, 15)
    IN [ok |-> m.tok # <<>> /\ pa.tok # <<>> /\ v.tok # <<>>,
        method |-> m.tok,
        filename |-> IF pa.tok = S(<<"/">>) THEN nIndex
                     ELSE SubSeq(pa.tok, 2, Len(pa.tok))]

\* The request lines that can reach the socket, parsed once.
RequestLines == [p \in {d.payload : d \in HttpFrames} |-> ParseRequestLine(p)]

RECURSIVE HasSub(_, _)
HasSub(b, sub) ==
    IF Len(b) < Len(sub) THEN FALSE
    ELSE SubSeq(b, 1, Len(sub)) = sub \/ HasSub(Tail(b), sub)

\* A regular file beside the document root, as named from inside it.
nOutside == S(<<".", ".", "/", "k", "e", "y">>)

Outside == [n \in {nOutside} |-> 64]

\* stat() of "<document_root>/<filename>" (fileserver.c 151, 160, 223-226): the
\* size of the regular file the path resolves to, -1 if there is none.
Stat(filename) ==
    IF Has(DocRoot, filename) THEN DocRoot[filename]
    ELSE IF Has(Outside, filename) THEN Outside[filename]
    ELSE -1

\* cache_file_in_kernel (fileserver.c 214-248): the entry it stores, if any.
HttpCacheable(filename) ==
    /\ enable_kernel_cache
    /\ Stat(filename) >= 0
    /\ Stat(filename) <= MAX_PACKET_SIZE

HttpCacheEntry(filename) ==
    [file_size |-> Stat(filename), valid |-> 1, cache_hits |-> 0]

\* serve_file (142-211): the status sent and the counter it raises.
ServeStatus(filename) ==
    IF HasSub(filename, S(<<".", ".">>)) \/ HasSub(filename, S(<<"/", "/">>)) THEN "403"
    ELSE IF Stat(filename) < 0 THEN "404"
    ELSE "200"

\* ring_buffer__poll: handle_event on every committed record (380-409).
HttpPolled(us) ==
    [us EXCEPT !.kernel_processed =
        @ + Cardinality({i \in 1..Len(events) :
                           events[i].type = "http_request"
                           /\ events[i].processed_in_kernel # 0})]

\* One iteration of run_http_server's loop (335-372): poll the ring, then accept
\* and handle one request if the socket was readable.
run_http_server(serve) ==
    LET req == RequestLines[Head(sock)]
        fn  == req.filename
        st  == ServeStatus(fn)
        us1 == HttpPolled(ustats)
        isGet == req.method = tGET
    IN
    /\ variant = "http"
    /\ serve => sock # <<>>
    /\ (~serve) => events # <<>>
    /\ events' = <<>>
    /\ UNCHANGED <<cfgVars, concVars, now, conn_track, stats, nfsVars, arrived>>
    /\ IF ~serve
       THEN /\ ustats' = us1
            /\ UNCHANGED <<file_cache, http_cached_at, sock>>
            /\ last' = Observed("poll", NoFrame, "none", <<>>, 0, "none")
       ELSE /\ sock' = Tail(sock)
            /\ IF ~req.ok
               THEN /\ ustats' = us1
                    /\ UNCHANGED <<file_cache, http_cached_at>>
                    /\ last' = Observed("control", NoFrame, "none", <<>>, 0, "400")
               ELSE IF ~isGet
               THEN /\ ustats' = [us1 EXCEPT !.total_requests = @ + 1]
                    /\ UNCHANGED <<file_cache, http_cached_at>>
                    /\ last' = Observed("control", NoFrame, "none", KeyOf(fn), 0, "405")
               ELSE /\ IF HttpCacheable(fn)
                       THEN /\ file_cache' = Put(file_cache, KeyOf(fn), HttpCacheEntry(fn))
                            /\ http_cached_at' = Put(http_cached_at, KeyOf(fn), now)
                       ELSE UNCHANGED <<file_cache, http_cached_at>>
                    /\ ustats' = [us1 EXCEPT
                                    !.total_requests = @ + 1,
                                    !.file_not_found = IF st = "404" THEN @ + 1 ELSE @,
                                    !.user_processed = IF st = "200" THEN @ + 1 ELSE @]
                    /\ last' = Observed("control", NoFrame,
                                        IF HttpCacheable(fn) THEN "refresh" ELSE "none",
                                        KeyOf(fn), 0, st)

(***************************************************************************)
(* The clock.                                                              *)
(***************************************************************************)
Tick ==
    /\ now < MaxClock
    /\ now' = now + TickSeconds
    /\ last' = Observed("tick", NoFrame, "none", <<>>, 0, "none")
    /\ UNCHANGED <<cfgVars, concVars, httpVars, nfsVars, ustats, sock, arrived>>

(***************************************************************************)
(* 32-bit words, kept as two 16-bit halves.                                *)
(***************************************************************************)
Word(hi, lo) == [hi |-> hi, lo |-> lo]

RECURSIVE Xor(_, _, _)
Xor(a, b, bits) ==
    IF bits = 0 THEN 0
    ELSE ((a + b) % 2) + 2 * Xor(a \div 2, b \div 2, bits - 1)

\* hash * 31 + c modulo 2^32
Mul31Add(h, c) ==
    LET lo == h.lo * 31 + c
        hi == h.hi * 31 + lo \div 65536
    IN Word(hi % 65536, lo % 65536)

\* hash ^ 0xdeadbeef
XorDeadBeef(h) == Word(Xor(h.hi, 57005, 16), Xor(h.lo, 48879, 16))

RECURSIVE HashFrom(_, _, _, _)
HashFrom(name, i, h, limit) ==
    IF i > Len(name) \/ name[i] = 0 \/ i > limit THEN h
    ELSE HashFrom(name, i + 1, Mul31Add(h, name[i]), limit)

Handle(h) == [len |-> 8, w0 |-> h, w1 |-> XorDeadBeef(h)]

\* nfs_server.c 137-149: the hash runs over the whole name.
generate_nfs_file_handle(filename) == Handle(HashFrom(filename, 1, Word(0, 0), 256))

\* nfs_server.bpf.c 421-435: the loop breaks after the fourth byte.
generate_file_handle(filename) == Handle(HashFrom(filename, 1, Word(0, 0), 4))

\* What the request record's handle would be had the engine decoded it from a
\* call for test.txt.
DecodedFh == generate_nfs_file_handle(nTest)

\* memset(&req_event->fh, 0, sizeof(req_event->fh)), line 647: the handle the
\* engine looks up is never read from the datagram.
ReqFh == [len |-> 0, w0 |-> Word(0, 0), w1 |-> Word(0, 0)]

(***************************************************************************)
(* Remote-filesystem frames.                                               *)
(***************************************************************************)
Enc32(v) == <<v \div 16777216, (v \div 65536) % 256, (v \div 256) % 256, v % 256>>

Rpc(xid, msg_type, rpc_version, program, version, procedure, auth_flavor, auth_len) ==
    Enc32(xid) \o Enc32(msg_type) \o Enc32(rpc_version) \o Enc32(program)
    \o Enc32(version) \o Enc32(procedure) \o Enc32(auth_flavor) \o Enc32(auth_len)

Call(xid, procedure) ==
    Rpc(xid, RPC_CALL, 2, RPC_PROGRAM_NFS, NFS_VERSION_3, procedure, 0, 0)

NfsFrame(payload, src) ==
    Frame(ETH_P_IP, IPPROTO_UDP, 5, 0, NFS_PORT, src, payload, 0)

\* Calls that pass the header validation; the last one carries AUTH_SYS
\* credentials and comes from a second client.
NfsRequests ==
    { NfsFrame(Call(7, p), 1) : p \in {NFSPROC3_NULL, NFSPROC3_GETATTR, NFSPROC3_READ} }
    \cup { NfsFrame(Rpc(70000, RPC_CALL, 2, RPC_PROGRAM_NFS, NFS_VERSION_3,
                        NFSPROC3_WRITE, 1, 8) \o Zeros(8), 2) }

NfsOddFrames ==
    { NfsFrame(Rpc(7, 1, 2, RPC_PROGRAM_NFS, NFS_VERSION_3, NFSPROC3_GETATTR, 0, 0), 1),
      NfsFrame(Rpc(7, RPC_CALL, 3, RPC_PROGRAM_NFS, NFS_VERSION_3, NFSPROC3_GETATTR, 0, 0), 1),
      NfsFrame(Rpc(7, RPC_CALL, 2, 100005, NFS_VERSION_3, NFSPROC3_GETATTR, 0, 0), 1),
      NfsFrame(Rpc(7, RPC_CALL, 2, RPC_PROGRAM_NFS, 2, NFSPROC3_GETATTR, 0, 0), 1),
      NfsFrame(SubSeq(Call(7, NFSPROC3_GETATTR), 1, 24), 1),       \* 24-byte payload
      Frame(ETH_P_IP, IPPROTO_UDP, 5, 0, 111, 1, Call(7, NFSPROC3_GETATTR), 0),
      Frame(ETH_P_IP, IPPROTO_TCP, 5, 5, NFS_PORT, 1, Call(7, NFSPROC3_GETATTR), 0),
      Frame(34525, IPPROTO_UDP, 5, 0, NFS_PORT, 1, Call(7, NFSPROC3_GETATTR), 0), \* IPv6
      Frame(ETH_P_IP, IPPROTO_UDP, 5, 0, NFS_PORT, 1, Call(7, NFSPROC3_GETATTR), 40) }

NfsFrames == NfsRequests \cup NfsOddFrames

(***************************************************************************)
(* Remote-filesystem engine: nfs_server.bpf.c                              *)
(***************************************************************************)
\* extract_be32, lines 384-389
extract_be32(f, p, offset) ==
    IF p + offset + 4 > Len(f) THEN 0
    ELSE B(f, p + offset) * 16777216 + B(f, p + offset + 1) * 65536
         + B(f, p + offset + 2) * 256 + B(f, p + offset + 3)

\* parse_rpc_header, lines 392-411
parse_rpc_header(f, p, payload_len) ==
    IF payload_len < RpcHeaderSize \/ p + RpcHeaderSize > Len(f)
    THEN [ok |-> FALSE, xid |-> 0, msg_type |-> 0, rpc_version |-> 0, program |-> 0,
          version |-> 0, procedure |-> 0, auth_flavor |-> 0, auth_len |-> 0]
    ELSE [ok |-> TRUE,
          xid         |-> extract_be32(f, p, 0),
          msg_type    |-> extract_be32(f, p, 4),
          rpc_version |-> extract_be32(f, p, 8),
          program     |-> extract_be32(f, p, 12),
          version     |-> extract_be32(f, p, 16),
          procedure   |-> extract_be32(f, p, 20),
          auth_flavor |-> extract_be32(f, p, 24),
          auth_len    |-> extract_be32(f, p, 28)]

\* The walk with the program-version test of line 611 left out.
NfsWalkAnyVersion(f) ==
    LET end  == Len(f)
        udp  == EthLen + (B(f, EthLen) % 16) * 4
        pay  == udp + UdpLen
        plen == (end - pay) % 65536
        rpc  == parse_rpc_header(f, pay, plen)
        no   == [ok |-> FALSE, rpc |-> parse_rpc_header(<<>>, 0, 0)]
    IN  IF EthLen > end THEN no
        ELSE IF Be16(f, 12) # ETH_P_IP THEN no
        ELSE IF EthLen + IpLen > end THEN no
        ELSE IF B(f, EthLen + 9) # IPPROTO_UDP THEN no
        ELSE IF udp + UdpLen > end THEN no
        ELSE IF Be16(f, udp + 2) # NFS_PORT THEN no
        ELSE IF pay >= end THEN no
        ELSE IF plen < RpcHeaderSize THEN no
        ELSE IF ~rpc.ok THEN no
        ELSE IF rpc.msg_type # RPC_CALL \/ rpc.rpc_version # 2
                \/ rpc.program # RPC_PROGRAM_NFS THEN no
        ELSE [ok |-> TRUE, rpc |-> rpc]

\* Lines 572-612: header walk and call validation.
NfsWalk(f) ==
    LET end  == Len(f)
        udp  == EthLen + (B(f, EthLen) % 16) * 4
        pay  == udp + UdpLen
        plen == (end - pay) % 65536
        rpc  == parse_rpc_header(f, pay, plen)
        no   == [ok |-> FALSE, rpc |-> parse_rpc_header(<<>>, 0, 0)]
    IN  IF EthLen > end THEN no
        ELSE IF Be16(f, 12) # ETH_P_IP THEN no
        ELSE IF EthLen + IpLen > end THEN no
        ELSE IF B(f, EthLen + 9) # IPPROTO_UDP THEN no
        ELSE IF udp + UdpLen > end THEN no
        ELSE IF Be16(f, udp + 2) # NFS_PORT THEN no
        ELSE IF pay >= end THEN no
        ELSE IF plen < RpcHeaderSize THEN no
        ELSE IF ~rpc.ok THEN no
        ELSE IF rpc.msg_type # RPC_CALL \/ rpc.rpc_version # 2
                \/ rpc.program # RPC_PROGRAM_NFS \/ rpc.version # NFS_VERSION_3 THEN no
        ELSE [ok |-> TRUE, rpc |-> rpc]

\* current_time - cache_time > cache_ttl_seconds * 10^9 in unsigned 64-bit
\* arithmetic; t is the engine's clock, ct the entry's cache_time, in seconds.
\* A cache_time ahead of the clock wraps to a difference far above any ttl.
TtlExpired(t, ct) == IF t >= ct THEN t - ct > cache_ttl_seconds ELSE TRUE

Fwd(filename) ==
    [handled |-> 0, result |-> NFS_OP_FORWARD_TO_USER, forwarded_to_user |-> 1,
     from_cache |-> 0, file_size |-> 0, filename |-> filename, hit |-> FALSE]

Hit(filename, size) ==
    [handled |-> 1, result |-> NFS_OP_SUCCESS, forwarded_to_user |-> 0,
     from_cache |-> 1, file_size |-> size, filename |-> filename, hit |-> TRUE]

\* handle_nfs_getattr, lines 446-496
handle_nfs_getattr(fh) ==
    IF ~Has(fh_to_name, fh) THEN Fwd(<<>>)
    ELSE LET filename == CStr(fh_to_name[fh])
         IN IF ~Has(nfs_file_cache, filename) \/ nfs_file_cache[filename].valid = 0
            THEN Fwd(filename)
            ELSE IF TtlExpired(now, nfs_file_cache[filename].cache_time)
            THEN Fwd(filename)
            ELSE Hit(filename, nfs_file_cache[filename].size)

\* A __u32 (nfs_request.offset, .count; nfs_file_cache_entry.data_size) as its
\* two 16-bit halves, with the 32-bit addition and comparison of the C code.
W16 == 65536

U32(hi, lo) == [hi |-> hi, lo |-> lo]

ToU32(n) == U32(n \div W16, n % W16)

Add32(a, b) == U32((a.hi + b.hi + ((a.lo + b.lo) \div W16)) % W16, (a.lo + b.lo) % W16)

Lt32(a, b) == a.hi < b.hi \/ (a.hi = b.hi /\ a.lo < b.lo)

\* The range test without its bound on count.
handle_nfs_read_unbounded(fh, offset, count) ==
    IF ~Has(fh_to_name, fh) THEN Fwd(<<>>)
    ELSE LET filename == CStr(fh_to_name[fh])
             data_size == ToU32(nfs_file_cache[filename].data_size)
         IN IF ~Has(nfs_file_cache, filename) \/ nfs_file_cache[filename].valid = 0
               \/ nfs_file_cache[filename].data_valid = 0
            THEN Fwd(filename)
            ELSE IF ~Lt32(offset, data_size)
                    \/ Lt32(data_size, Add32(offset, count))
            THEN Fwd(filename)
            ELSE Hit(filename, count.lo)

\* handle_nfs_read, lines 499-550; offset and count are the request record's.
handle_nfs_read(fh, offset, count) ==
    IF ~Has(fh_to_name, fh) THEN Fwd(<<>>)
    ELSE LET filename == CStr(fh_to_name[fh])
             data_size == ToU32(nfs_file_cache[filename].data_size)
         IN IF ~Has(nfs_file_cache, filename) \/ nfs_file_cache[filename].valid = 0
               \/ nfs_file_cache[filename].data_valid = 0
            THEN Fwd(filename)
            ELSE IF ~Lt32(offset, data_size)
                    \/ Lt32(ToU32(MAX_NFS_DATA_SIZE), count)
                    \/ Lt32(data_size, Add32(offset, count))
            THEN Fwd(filename)
            ELSE Hit(filename, count.lo)

\* The switch with a NULL branch that leaves forwarded_to_user as initialised.
NfsOutcomeNullForwarded(procedure) ==
    IF enable_kernel_processing = 0 THEN Fwd(<<>>)
    ELSE IF procedure = NFSPROC3_NULL
         THEN [Fwd(<<>>) EXCEPT !.handled = 1, !.result = NFS_OP_SUCCESS]
    ELSE IF procedure = NFSPROC3_GETATTR THEN handle_nfs_getattr(ReqFh)
    ELSE IF procedure = NFSPROC3_READ THEN handle_nfs_read(ReqFh, ToU32(0), ToU32(0))
    ELSE Fwd(<<>>)

\* The switch of lines 668-690.
NfsOutcome(procedure) ==
    IF enable_kernel_processing = 0 THEN Fwd(<<>>)
    ELSE IF procedure = NFSPROC3_NULL
         THEN [Fwd(<<>>) EXCEPT !.handled = 1, !.result = NFS_OP_SUCCESS,
                                !.forwarded_to_user = 0]
    ELSE IF procedure = NFSPROC3_GETATTR THEN handle_nfs_getattr(ReqFh)
    ELSE IF procedure = NFSPROC3_READ THEN handle_nfs_read(ReqFh, ToU32(0), ToU32(0))
    ELSE Fwd(<<>>)

NfsReqEvent(ip, procedure, pik) ==
    [type |-> "nfs_request", addr |-> ip, op |-> procedure, filename |-> <<>>,
     processed_in_kernel |-> pik, result |-> 0, file_size |-> 0,
     forwarded_to_user |-> 0, from_cache |-> 0]

NfsOpEvent(ip, procedure, o) ==
    [type |-> "nfs_event", addr |-> ip, op |-> procedure, filename |-> o.filename,
     processed_in_kernel |-> 0, result |-> o.result, file_size |-> o.file_size,
     forwarded_to_user |-> o.forwarded_to_user, from_cache |-> o.from_cache]

\* A touch that refreshes the time of an existing entry without counting.
TouchedUncounted(ip) ==
    IF Has(client_track, ip)
    THEN [client_track[ip] EXCEPT !.last_request_time = now]
    ELSE [last_request_time |-> now, request_count |-> 1,
          kernel_processed |-> 0, user_forwarded |-> 0]

\* Lines 618-632: the tracker entry after the lookup/insert step.
Touched(ip) ==
    IF Has(client_track, ip)
    THEN [client_track[ip] EXCEPT !.last_request_time = now, !.request_count = @ + 1]
    ELSE [last_request_time |-> now, request_count |-> 1,
          kernel_processed |-> 0, user_forwarded |-> 0]

\* Lines 694-700: the class counter is raised through client_state, which points
\* into the map only when the entry already existed (else at the local new_state).
Classified(ip, handled) ==
    IF Has(client_track, ip)
    THEN IF handled # 0 THEN [Touched(ip) EXCEPT !.kernel_processed = @ + 1]
         ELSE [Touched(ip) EXCEPT !.user_forwarded = @ + 1]
    ELSE Touched(ip)

\* The server's socket exists once main() is past the pre-cache step (503-520).
NfsDeliver(d) ==
    IF precached /\ Delivered(d, IPPROTO_UDP, NFS_PORT) /\ Len(sock) < MaxSock
    THEN Append(sock, d.payload) ELSE sock

\* nfs_server_tc, lines 553-707
\* Lines 572-615 on frame d: the part of the handler that reads only the frame.
NfsParsed(d) ==
    LET f == Bytes(d)
        w == NfsWalk(f)
    IN  [ok |-> w.ok, rpc |-> w.rpc, client_ip |-> IF w.ok THEN SrcAddr(f) ELSE <<>>]

NfsParse == [d \in NfsFrames |-> NfsParsed(d)]

nfs_server_tc(d) ==
    LET w == NfsParse[d]
        client_ip == w.client_ip
        o == NfsOutcome(w.rpc.procedure)
    IN
    /\ variant = "nfs"
    /\ arrived < MaxReq
    /\ arrived' = arrived + 1
    /\ sock' = NfsDeliver(d)
    /\ UNCHANGED <<cfgVars, concVars, now, ustats, httpVars, fh_to_name, precached>>
    /\ IF ~w.ok
       THEN /\ UNCHANGED <<nfs_file_cache, client_track, nfs_stats, nfs_events>>
            /\ last' = Observed("engine", d, "PassThrough", <<>>, 0, "none")
       ELSE IF ~RingHasRoom(nfs_events, 1)
       THEN \* lines 636 / 651: a record cannot be reserved
            /\ client_track' = Put(client_track, client_ip, Touched(client_ip))
            /\ UNCHANGED <<nfs_file_cache, nfs_stats, nfs_events>>
            /\ last' = Observed("engine", d, "NoDecision", <<>>, w.rpc.procedure, "none")
       ELSE /\ client_track' = Put(client_track, client_ip, Classified(client_ip, o.handled))
            /\ nfs_file_cache' =
                 IF o.hit THEN MarkHit(nfs_file_cache, o.filename) ELSE nfs_file_cache
            /\ nfs_stats' = Bump(Bump(nfs_stats, 0), IF o.handled # 0 THEN 1 ELSE 2)
            /\ nfs_events' = nfs_events
                  \o <<NfsReqEvent(client_ip, w.rpc.procedure, o.handled),
                       NfsOpEvent(client_ip, w.rpc.procedure, o)>>
            /\ last' = Observed("engine", d,
                                IF o.handled # 0 THEN "KernelServed"
                                ELSE "ForwardToControlPlane",
                                o.filename, w.rpc.procedure, "none")

(***************************************************************************)
(* Remote-filesystem control plane: nfs_server.c                           *)
(***************************************************************************)
\* Sizes test.txt can have when main() pre-caches it (-1: stat fails).  main
\* rewrites the file to 23 bytes only if its open() succeeds (lines 440-444).
TestFileSizes == {-1, 23, 5000, 9000}

\* cache_file_in_kernel is handed the literal "test.txt" as a 256-byte map key:
\* the bytes after the literal's terminator are whatever follows it in .rodata.
AfterLiteral == {<<>>, <<0, 80>>}

\* The guard without its size test (lines 167-169).
NfsCacheableAnySize(size) == enable_kernel_cache /\ size >= 0

NfsCacheable(size) ==
    enable_kernel_cache /\ size >= 0 /\ size <= MAX_NFS_DATA_SIZE

\* An entry whose handle is hashed over the first four bytes of the name only.
NfsCacheEntryShortHash(filename, size) ==
    [fh |-> generate_file_handle(filename), size |-> size, data_size |-> size,
     cache_time |-> BootEpoch + now, cache_hits |-> 0, valid |-> 1, data_valid |-> 1]

NfsCacheEntry(filename, size) ==
    [fh |-> generate_nfs_file_handle(filename), size |-> size, data_size |-> size,
     cache_time |-> BootEpoch + now, cache_hits |-> 0, valid |-> 1, data_valid |-> 1]

\* main() lines 497-501 with cache_file_in_kernel (152-217).
PreCache(size, tail) ==
    /\ variant = "nfs"
    /\ ~precached
    /\ precached' = TRUE
    /\ IF NfsCacheable(size)
       THEN /\ nfs_file_cache' = Put(nfs_file_cache, KeyOf(nTest \o tail),
                                     NfsCacheEntry(nTest, size))
            /\ fh_to_name' = Put(fh_to_name, generate_nfs_file_handle(nTest), nTest \o tail)
       ELSE UNCHANGED <<nfs_file_cache, fh_to_name>>
    /\ last' = Observed("control", NoFrame,
                        IF NfsCacheable(size) THEN "refresh" ELSE "none",
                        KeyOf(nTest \o tail), 0, "none")
    /\ UNCHANGED <<cfgVars, concVars, now, httpVars, ustats, sock, client_track, nfs_stats,
                   nfs_events, arrived>>

\* handle_event (362-395) over every committed record.
NfsPolled(us) ==
    LET ev(r) == r.type = "nfs_event"
        fromCache == {i \in 1..Len(nfs_events) :
                        ev(nfs_events[i]) /\ nfs_events[i].from_cache # 0}
        missed    == {i \in 1..Len(nfs_events) :
                        ev(nfs_events[i]) /\ nfs_events[i].from_cache = 0
                        /\ nfs_events[i].forwarded_to_user # 0}
        inKernel  == {i \in 1..Len(nfs_events) :
                        ev(nfs_events[i]) /\ nfs_events[i].result = NFS_OP_SUCCESS
                        /\ nfs_events[i].forwarded_to_user = 0}
    IN [us EXCEPT !.cache_hits = @ + Cardinality(fromCache),
                  !.cache_misses = @ + Cardinality(missed),
                  !.kernel_processed = @ + Cardinality(inKernel)]

\* process_nfs_request (325-359) with handle_nfs_getattr / handle_nfs_read
\* (220-322): the reply sent, if any.  present: test.txt can be stat'ed/opened.
NfsReply(buffer, present) ==
    LET proc == extract_be32(buffer, 0, 20)
    IN  IF Len(buffer) < 24 THEN "none"
        ELSE IF extract_be32(buffer, 0, 4) # 0 \/ extract_be32(buffer, 0, 8) # 2
                \/ extract_be32(buffer, 0, 12) # RPC_PROGRAM_NFS
                \/ extract_be32(buffer, 0, 16) # NFS_VERSION_3 THEN "none"
        ELSE IF proc \in {NFSPROC3_GETATTR, NFSPROC3_READ}
             THEN IF present THEN "NFS3_OK" ELSE "NFS3ERR_NOENT"
        ELSE "unsupported"

\* The transaction id a reply carries: the first word process_nfs_request decodes
\* from the datagram (line 337), encoded first by the reply's builder (235, 291).
ZeroXid(buffer) == 0

ReplyXid(buffer) == extract_be32(buffer, 0, 0)

\* One iteration of main's loop (526-553): poll the ring, then receive and
\* process one datagram if the socket was readable.
nfs_main_loop(serve, present) ==
    LET us1 == NfsPolled(ustats)
        r   == NfsReply(Head(sock), present)
    IN
    /\ variant = "nfs"
    /\ precached
    /\ serve => sock # <<>>
    /\ (~serve) => (nfs_events # <<>> /\ present)
    /\ nfs_events' = <<>>
    /\ UNCHANGED <<cfgVars, concVars, now, httpVars, nfs_file_cache, fh_to_name, client_track,
                   nfs_stats, precached, arrived>>
    /\ IF ~serve
       THEN /\ ustats' = us1
            /\ UNCHANGED sock
            /\ last' = Observed("poll", NoFrame, "none", <<>>, 0, "none")
       ELSE /\ sock' = Tail(sock)
            /\ ustats' = [us1 EXCEPT
                            !.total_requests = IF r = "none" THEN @ ELSE @ + 1,
                            !.user_processed = IF r = "NFS3_OK" THEN @ + 1 ELSE @]
            /\ last' = [Observed("control", NoFrame, "none", <<>>, 0,
                                 IF r = "unsupported" THEN "none" ELSE r)
                         EXCEPT !.xid = IF r \in {"NFS3_OK", "NFS3ERR_NOENT"}
                                        THEN ReplyXid(Head(sock)) ELSE 0]

(***************************************************************************)
(* The system.                                                             *)
(***************************************************************************)
ZeroStats == [i \in 0..4 |-> 0]

ZeroUstats ==
    [total_requests |-> 0, kernel_processed |-> 0, user_processed |-> 0,
     cache_hits |-> 0, cache_misses |-> 0, file_not_found |-> 0, errors |-> 0]

Init ==
    /\ variant \in {"http", "nfs"}
    /\ enable_kernel_processing \in {0, 1}
    /\ enable_kernel_cache \in BOOLEAN
    /\ now = 0
    /\ file_cache = EmptyMap
    /\ http_cached_at = EmptyMap
    /\ conn_track = EmptyMap
    /\ stats = ZeroStats
    /\ events = <<>>
    /\ ustats = ZeroUstats
    /\ sock = <<>>
    /\ nfs_file_cache = EmptyMap
    /\ fh_to_name = EmptyMap
    /\ client_track = EmptyMap
    /\ nfs_stats = ZeroStats
    /\ nfs_events = <<>>
    /\ precached = FALSE
    /\ arrived = 0
    /\ last = Observed("init", NoFrame, "none", <<>>, 0, "none")
    /\ inv = <<>>
    /\ elem = <<>>
    /\ bucket = EmptyMap
    /\ loop = <<>>
    /\ read = <<>>
    /\ parse = <<>>
    /\ chan = <<>>

Next ==
    \/ \E d \in HttpFrames : fileserver_ingress(d)
    \/ \E serve \in BOOLEAN : run_http_server(serve)
    \/ \E d \in NfsFrames : nfs_server_tc(d)
    \/ \E size \in TestFileSizes, tail \in AfterLiteral : PreCache(size, tail)
    \/ \E serve \in BOOLEAN, present \in BOOLEAN : nfs_main_loop(serve, present)
    \/ Tick

Spec == Init /\ [][Next]_vars

\* The remote-filesystem control plane keeps running: main() reaches its loop
\* (the pre-cache step is straight-line code), and an iteration that finds the
\* socket readable receives and processes one datagram (lines 526-553).
LiveSpec ==
    /\ Spec
    /\ WF_vars(\E size \in TestFileSizes, tail \in AfterLiteral : PreCache(size, tail))
    /\ WF_vars(\E present \in BOOLEAN : nfs_main_loop(TRUE, present))

(***************************************************************************)
(* Vocabulary of the properties.                                           *)
(***************************************************************************)
\* The step just taken was the engine handling a frame it recognized.
Recognized == last.actor = "engine" /\ last.decision # "PassThrough"

\* The engine reached its decision and committed both records of the request.
Decided ==
    /\ Recognized
    /\ last.decision # "NoDecision"
    /\ IF variant = "http"
       THEN /\ events # <<>>
            /\ events[Len(events)].type =
                  IF enable_kernel_processing # 0 /\ last.op = HTTP_GET
                  THEN "file_event" ELSE "http_request"
       ELSE nfs_events # <<>> /\ nfs_events[Len(nfs_events)].type = "nfs_event"

\* File-fetch variant: the step was a GET whose request line names path f.
GetOf(f) ==
    /\ variant = "http"
    /\ Recognized
    /\ last.op = HTTP_GET
    /\ RequestLines[last.frame.payload].filename = f

\* Remote-filesystem variant: the step was a GETATTR or READ call.  The only
\* file the control plane serves and caches is test.txt, so that is its key.
ReadCall ==
    /\ variant = "nfs"
    /\ Recognized
    /\ last.op \in {NFSPROC3_GETATTR, NFSPROC3_READ}

\* Seconds since the control plane last stored key k (file-fetch variant).
HttpAge(k) == now - http_cached_at[k]

\* Seconds since the control plane stamped the entry of key k, both read on
\* the wall clock (remote-filesystem variant).
NfsAge(k) == (BootEpoch + now) - nfs_file_cache[k].cache_time

(***************************************************************************)
(* C1.  File-fetch variant, kernel processing and kernel cache enabled, no *)
(* event dropped: for every file f of the document root within the         *)
(* cacheable size, a GET for f is decided ForwardToControlPlane while the  *)
(* Cache Store has no entry for f, and KernelServed once the control plane *)
(* has stored one.                                                         *)
(***************************************************************************)
C1_ForwardThenServed ==
    \A f \in DOMAIN DocRoot :
        (enable_kernel_processing # 0 /\ HttpCacheable(f) /\ GetOf(f) /\ Decided)
        => last.decision = IF Has(file_cache, f) THEN "KernelServed"
                           ELSE "ForwardToControlPlane"

(***************************************************************************)
(* C2.  Remote-filesystem variant, kernel processing enabled, no event     *)
(* dropped: a GETATTR or READ call is decided ForwardToControlPlane while  *)
(* the Cache Store has no entry for its key, and KernelServed once the     *)
(* control plane has stored the entry and its handle mapping.              *)
(***************************************************************************)
NfsStored(k) ==
    /\ Has(nfs_file_cache, k)
    /\ Has(fh_to_name, nfs_file_cache[k].fh)
    /\ CStr(fh_to_name[nfs_file_cache[k].fh]) = k

\* C2: a GETATTR or READ call forwards while test.txt has no entry and is
\* served from the kernel once entry and handle mapping are stored.
C2_ForwardThenServed ==
    (enable_kernel_processing # 0 /\ ReadCall /\ Decided)
    => last.decision = IF NfsStored(nTest) THEN "KernelServed"
                       ELSE "ForwardToControlPlane"

(***************************************************************************)
(* C3.  Both variants, kernel processing enabled, channel space available: *)
(* a read-style request (GET; GETATTR, READ) whose key has a valid (and,   *)
(* for READ, data_valid) unexpired entry covering the requested range is   *)
(* decided KernelServed and its record reports the cached size.            *)
(***************************************************************************)
\* The entry of key k may be served at the engine's present time.
HttpFresh(k) ==
    /\ Has(file_cache, k)
    /\ file_cache[k].valid # 0
    /\ HttpAge(k) < cache_ttl_seconds

NfsFresh(k) ==
    /\ NfsStored(k)
    /\ nfs_file_cache[k].valid # 0
    /\ nfs_file_cache[k].data_valid # 0
    /\ NfsAge(k) < cache_ttl_seconds

\* C3: a read-style request that finds a fresh entry is KernelServed and its
\* record reports the cached size.
C3_FreshEntryServed ==
    /\ (variant = "http" /\ enable_kernel_processing # 0 /\ Decided
        /\ last.op = HTTP_GET /\ HttpFresh(last.key))
       => /\ last.decision = "KernelServed"
          /\ events[Len(events)].file_size = file_cache[last.key].file_size
    /\ (enable_kernel_processing # 0 /\ ReadCall /\ Decided /\ NfsFresh(nTest))
       => /\ last.decision = "KernelServed"
          /\ nfs_events[Len(nfs_events)].file_size = nfs_file_cache[nTest].size

(***************************************************************************)
(* C4.  Whenever the engine decides KernelServed, for any operation code   *)
(* of either variant (the NULL procedure included), the Cache Store holds  *)
(* a valid, unexpired, size-eligible entry for the request's key.          *)
(***************************************************************************)
C4_ServedImpliesEligible ==
    (last.actor = "engine" /\ last.decision = "KernelServed")
    => IF variant = "http"
       THEN /\ Has(file_cache, last.key)
            /\ file_cache[last.key].valid # 0
            /\ HttpAge(last.key) <= cache_ttl_seconds
            /\ file_cache[last.key].file_size <= max_file_size
       ELSE /\ Has(nfs_file_cache, last.key)
            /\ nfs_file_cache[last.key].valid # 0
            /\ NfsAge(last.key) <= cache_ttl_seconds
            /\ nfs_file_cache[last.key].size <= max_cached_file_size

(***************************************************************************)
(* C5.  TTL expiry: once the clock is past cache_timestamp + ttl, a GET,   *)
(* GETATTR or READ for that entry is no longer decided KernelServed but    *)
(* ForwardToControlPlane, until the control plane stores the key afresh.   *)
(***************************************************************************)
C5_ExpiredForwards ==
    /\ (variant = "http" /\ Decided /\ last.op = HTTP_GET
        /\ Has(file_cache, last.key) /\ HttpAge(last.key) > cache_ttl_seconds)
       => last.decision # "KernelServed"
    /\ (ReadCall /\ Decided /\ NfsStored(nTest)
        /\ NfsAge(nTest) > cache_ttl_seconds)
       => last.decision = "ForwardToControlPlane"

(***************************************************************************)
(* C6.  Size bound: no entry larger than the configured maximum cacheable  *)
(* size (4096) is ever served from the kernel; a read-style request that   *)
(* finds such a valid entry in the Cache Store and reaches its decision is *)
(* decided ForwardToControlPlane.                                          *)
(***************************************************************************)
HttpOversize(k) ==
    Has(file_cache, k) /\ file_cache[k].valid # 0
    /\ file_cache[k].file_size > max_file_size

NfsOversize(k) ==
    Has(nfs_file_cache, k) /\ nfs_file_cache[k].valid # 0
    /\ nfs_file_cache[k].size > max_cached_file_size

C7_GateForwards ==
    [][ (enable_kernel_processing = 0 /\ last'.actor = "engine"
         /\ last'.decision # "PassThrough")
        => /\ last'.decision = "ForwardToControlPlane"
           /\ IF variant = "http"
              THEN /\ stats'[2] = stats[2] + 1
                   /\ stats'[1] = stats[1]
                   /\ file_cache' = file_cache
              ELSE /\ nfs_stats'[2] = nfs_stats[2] + 1
                   /\ nfs_stats'[1] = nfs_stats[1]
                   /\ nfs_file_cache' = nfs_file_cache ]_vars

(***************************************************************************)
(* C8.  Started with the no-kernel-cache option (-n), the control plane    *)
(* never writes a Cache Store entry and the engine never decides           *)
(* KernelServed, whatever the request (the NULL procedure included).       *)
(***************************************************************************)
C8_NoCacheOption ==
    ~enable_kernel_cache
    => /\ file_cache = EmptyMap
       /\ nfs_file_cache = EmptyMap
       /\ ~(last.actor = "engine" /\ last.decision = "KernelServed")

(***************************************************************************)
(* C9.  A frame outside the variant's recognized link / network /          *)
(* transport / port combination (not IPv4, other transport protocol, other *)
(* destination port, truncated header, payload too short, unknown method   *)
(* token) gets the pass verdict, and the statistics, the Cache Store, the  *)
(* handle table, the client tracker and the event channel stay unchanged.  *)
(***************************************************************************)
\* Frame classes, read off the way the frame was built.
HeadersLen(d) ==
    EthLen + d.ihl * 4 + (IF d.proto = IPPROTO_UDP THEN UdpLen ELSE d.doff * 4)

Truncated(d) == d.cut > 0 /\ d.cut < HeadersLen(d)

StartsWithToken(p) ==
    \E t \in {tGET, tPOST, tPUT, tDELETE} : Len(p) >= Len(t) /\ SubSeq(p, 1, Len(t)) = t

HttpForeign(d) ==
    \/ d.eth # ETH_P_IP
    \/ d.proto # IPPROTO_TCP
    \/ d.dport \notin {80, 8080}
    \/ Truncated(d)
    \/ Len(d.payload) < 4
    \/ ~StartsWithToken(d.payload)

NfsForeign(d) ==
    \/ d.eth # ETH_P_IP
    \/ d.proto # IPPROTO_UDP
    \/ d.dport # NFS_PORT
    \/ Truncated(d)
    \/ Len(d.payload) < RpcHeaderSize

Foreign(d) == IF variant = "http" THEN HttpForeign(d) ELSE NfsForeign(d)

Shared == <<stats, file_cache, conn_track, events,
            nfs_stats, nfs_file_cache, fh_to_name, client_track, nfs_events>>

\* C9: a step of the engine on a foreign frame returns the pass verdict and
\* changes no shared map, counter or ring.
C9_ForeignFramesPass ==
    [][ (last'.actor = "engine" /\ Foreign(last'.frame))
        => /\ last'.verdict = TC_ACT_OK
           /\ last'.decision = "PassThrough"
           /\ UNCHANGED Shared ]_vars

\* A foreign frame was passed after a recognized request had left its marks.
C9_Witness ==
    /\ last.actor = "engine"
    /\ Foreign(last.frame)
    /\ last.decision = "PassThrough"
    /\ stats[0] + nfs_stats[0] > 0
    /\ events # <<>> \/ nfs_events # <<>>

(***************************************************************************)
(* C10.  Remote-filesystem variant: a datagram to the NFS port whose       *)
(* payload is shorter than 32 bytes, or whose message type is not 0, RPC   *)
(* version not 2, program not 100003 or program version not 3, is passed   *)
(* with no event, counter, client-tracker or cache change; a payload that  *)
(* passes the four checks is recognized whatever its transaction id,       *)
(* procedure and credentials.                                              *)
(***************************************************************************)
ToNfsPort(d) ==
    d.eth = ETH_P_IP /\ d.proto = IPPROTO_UDP /\ d.dport = NFS_PORT /\ d.cut = 0

\* Big-endian word k (0-based) of a payload.
Word32(p, k) ==
    p[4 * k + 1] * 16777216 + p[4 * k + 2] * 65536 + p[4 * k + 3] * 256 + p[4 * k + 4]

ValidCall(p) ==
    /\ Len(p) >= 32
    /\ Word32(p, 1) = 0
    /\ Word32(p, 2) = 2
    /\ Word32(p, 3) = 100003
    /\ Word32(p, 4) = 3

\* C10: a datagram to the NFS port is recognized exactly when its payload
\* holds a 32-byte header with the four supported field values; otherwise it
\* is passed and nothing changes.
C10_CallValidation ==
    [][ (variant = "nfs" /\ last'.actor = "engine" /\ ToNfsPort(last'.frame))
        => IF ValidCall(last'.frame.payload)
           THEN /\ last'.decision # "PassThrough"
                /\ Has(client_track', <<10, 0, 0, last'.frame.src>>)
           ELSE /\ last'.decision = "PassThrough"
                /\ UNCHANGED Shared ]_vars

\* A datagram failing a field check was passed after the call with
\* transaction id 70000 and AUTH_SYS credentials had been recognized.
C10_Witness ==
    /\ variant = "nfs"
    /\ last.actor = "engine"
    /\ ToNfsPort(last.frame)
    /\ Len(last.frame.payload) >= 32
    /\ ~ValidCall(last.frame.payload)
    /\ last.decision = "PassThrough"
    /\ Has(client_track, <<10, 0, 0, 2>>)

(***************************************************************************)
(* C11.  A request the engine decided KernelServed or NotFound is answered  *)
(* at the interception point: the handler's verdict is not the pass         *)
(* verdict and the step does not queue the frame for the control plane.     *)
(***************************************************************************)
Terminal == Recognized /\ last.decision \in {"KernelServed", "NotFound"}

C11_TerminalNotDelivered ==
    [][ Terminal' => (last'.verdict # TC_ACT_OK /\ sock' = sock) ]_vars

(***************************************************************************)
(* C12.  A recognized request that is forwarded, its event records kept or  *)
(* lost to a full ring, gets the pass verdict, and its unmodified payload   *)
(* is the newest datagram or segment queued for the control plane (unless   *)
(* the socket's queue is full).                                             *)
(***************************************************************************)
ForControlPlane(d) ==
    IF variant = "http" THEN Delivered(d, IPPROTO_TCP, server_port)
    ELSE precached /\ Delivered(d, IPPROTO_UDP, NFS_PORT)

Forwarded == Recognized /\ last.decision \in {"ForwardToControlPlane", "NoDecision"}

C12_ForwardedFramePasses ==
    Forwarded =>
        /\ last.verdict = TC_ACT_OK
        /\ ForControlPlane(last.frame) =>
              \/ sock # <<>> /\ sock[Len(sock)] = last.frame.payload
              \/ Len(sock) = MaxSock

\* A request whose records were lost to a full ring is queued for the control plane.
C12_Witness ==
    /\ Recognized
    /\ last.decision = "NoDecision"
    /\ ForControlPlane(last.frame)
    /\ sock = <<last.frame.payload>>

(***************************************************************************)
(* C13.  Whether or not the event ring has room, a step of the engine on a  *)
(* recognized request leaves the statistics counters, the hit counter and   *)
(* the client tracker as the decision for that request and state requires:  *)
(* total and decision counter raised by one, the hit counter raised on      *)
(* KernelServed, the client's tracker entry updated.                        *)
(***************************************************************************)
HttpStatOf(decision) ==
    CASE decision = "KernelServed" -> 1
      [] decision = "NotFound"     -> 3
      [] OTHER                     -> 2

HttpUpdatesOf(d) ==
    LET w        == HttpParse[d]
        key      == KeyOf(w.filename)
        decision == HttpDecision(w.method, w.filename)
    IN  /\ stats' = Bump(Bump(stats, 0), HttpStatOf(decision))
        /\ file_cache' = IF decision = "KernelServed"
                         THEN [file_cache EXCEPT ![key].cache_hits = @ + 1]
                         ELSE file_cache
        /\ conn_track' = Put(conn_track, w.client_ip, now)

NfsUpdatesOf(d) ==
    LET w == NfsParse[d]
        o == NfsOutcome(w.rpc.procedure)
    IN  /\ nfs_stats' = Bump(Bump(nfs_stats, 0), IF o.handled # 0 THEN 1 ELSE 2)
        /\ nfs_file_cache' =
              IF o.hit THEN [nfs_file_cache EXCEPT ![o.filename].cache_hits = @ + 1]
              ELSE nfs_file_cache
        /\ client_track' = Put(client_track, w.client_ip,
                               Classified(w.client_ip, o.handled))

C13_FullRingSameUpdates ==
    [][ Recognized' =>
          IF variant = "http" THEN HttpUpdatesOf(last'.frame)
          ELSE NfsUpdatesOf(last'.frame) ]_vars

(***************************************************************************)
(* C14.  Each request the control plane takes from its socket (any HTTP     *)
(* request; any valid NFSv3 call, whatever its procedure) is answered with  *)
(* a response in the same iteration, before the next request is taken.      *)
(***************************************************************************)
Received ==
    /\ sock # <<>>
    /\ last'.actor = "control"
    /\ sock' = Tail(sock)
    /\ variant = "nfs" => ValidCall(Head(sock))

C14_OneResponsePerRequest ==
    [][ Received => last'.resp # "none" ]_vars

(***************************************************************************)
(* C15.  Every well-formed 32-byte GETATTR or READ call sent to the         *)
(* server's UDP port is eventually answered with a reply datagram carrying  *)
(* the call's transaction id, whatever the engine decided for it.           *)
(***************************************************************************)
Xids == {7, 70000}

AttrOrRead(p) ==
    ValidCall(p) /\ Word32(p, 5) \in {NFSPROC3_GETATTR, NFSPROC3_READ}

Sent(x) ==
    /\ variant = "nfs"
    /\ precached
    /\ last.actor = "engine"
    /\ ToNfsPort(last.frame)
    /\ Len(last.frame.payload) = RpcHeaderSize
    /\ AttrOrRead(last.frame.payload)
    /\ Word32(last.frame.payload, 0) = x

Replied(x) ==
    /\ variant = "nfs"
    /\ last.actor = "control"
    /\ last.resp \in {"NFS3_OK", "NFS3ERR_NOENT"}
    /\ last.xid = x

Queued(x) ==
    /\ variant = "nfs"
    /\ \E i \in 1..Len(sock) : AttrOrRead(sock[i]) /\ Word32(sock[i], 0) = x

NInv == 2
MaxRefresh == 2

Invocations == 1..NInv
ConcKey == KeyOf(nTest)
ConcClient == <<10, 0, 0, 1>>
ConcProcedures == {NFSPROC3_NULL, NFSPROC3_GETATTR}

\* Sizes test.txt has on disk when the control plane caches it.
ConcSizes == {23, 100}

Idle ==
    [pc |-> "start", procedure |-> 0, ptr |-> 0, reg |-> 0, seen |-> <<>>,
     handled |-> 0, inmap |-> FALSE, did |-> {}]

\* A plain store in place of the atomic add.
store_stats(st, stat_type, value) == [st EXCEPT ![stat_type] = value]

\* update_stats (137-143): __sync_fetch_and_add on the array element.
update_stats(st, stat_type, value) == [st EXCEPT ![stat_type] = @ + value]

\* update_nfs_stats (437-443)
update_nfs_stats(st, stat_type, value) == [st EXCEPT ![stat_type] = @ + value]

\* The element that receives the value of an update, were it written in place.
ReuseElem(h, b, k) == IF Has(b, k) THEN b[k] ELSE Len(h) + 1

\* The element that receives the value of bpf_map_update_elem: a new one.
AllocElem(h, b, k) == Len(h) + 1

StoreElem(h, a, v) == IF a = Len(h) + 1 THEN Append(h, v) ELSE [h EXCEPT ![a] = v]

concIdle == <<cfgVars, now, file_cache, http_cached_at, events, ustats, sock,
              nfs_events, precached, arrived, last, loop, read, parse, chan>>
concHttp == <<stats, conn_track, elem, bucket>>
concNfs  == <<nfs_stats, client_track, nfs_file_cache, fh_to_name>>

\* fileserver_ingress, line 211
ingress_total(i) ==
    /\ variant = "http"
    /\ inv[i].pc = "start"
    /\ stats' = update_stats(stats, 0, 1)
    /\ inv' = [inv EXCEPT ![i].pc = "reserve", ![i].did = @ \cup {0}]
    /\ UNCHANGED <<concIdle, concNfs, conn_track, elem, bucket>>

\* lines 214-216: the request record is reserved, or the handler returns
ingress_reserve(i, ok) ==
    /\ variant = "http"
    /\ inv[i].pc = "reserve"
    /\ inv' = [inv EXCEPT ![i].pc = IF ok THEN "lookup" ELSE "done"]
    /\ UNCHANGED <<concIdle, concNfs, concHttp>>

\* line 230: bpf_map_lookup_elem(&file_cache, filename)
ingress_lookup(i) ==
    /\ variant = "http"
    /\ inv[i].pc = "lookup"
    /\ inv' = [inv EXCEPT
                 ![i].ptr = IF Has(bucket, ConcKey) THEN bucket[ConcKey] ELSE 0,
                 ![i].pc  = IF Has(bucket, ConcKey) THEN "valid" ELSE "forward"]
    /\ UNCHANGED <<concIdle, concNfs, concHttp>>

\* line 232: cache_entry->valid
ingress_valid(i) ==
    /\ variant = "http"
    /\ inv[i].pc = "valid"
    /\ inv' = [inv EXCEPT
                 ![i].seen = <<elem[inv[i].ptr].gen>>,
                 ![i].pc   = IF elem[inv[i].ptr].valid # 0 THEN "load" ELSE "forward"]
    /\ UNCHANGED <<concIdle, concNfs, concHttp>>

\* line 235, cache_entry->cache_hits++: the load
ingress_hits_load(i) ==
    /\ variant = "http"
    /\ inv[i].pc = "load"
    /\ inv' = [inv EXCEPT ![i].reg = elem[inv[i].ptr].cache_hits, ![i].pc = "store"]
    /\ UNCHANGED <<concIdle, concNfs, concHttp>>

\* line 235, cache_entry->cache_hits++: the store
ingress_hits_store(i) ==
    /\ variant = "http"
    /\ inv[i].pc = "store"
    /\ elem' = [elem EXCEPT ![inv[i].ptr].cache_hits = inv[i].reg + 1]
    /\ inv' = [inv EXCEPT ![i].handled = 1, ![i].pc = "kernel"]
    /\ UNCHANGED <<concIdle, concNfs, stats, conn_track, bucket>>

\* line 236
ingress_kernel(i) ==
    /\ variant = "http"
    /\ inv[i].pc = "kernel"
    /\ stats' = update_stats(stats, 1, 1)
    /\ inv' = [inv EXCEPT ![i].pc = "size", ![i].did = @ \cup {1}]
    /\ UNCHANGED <<concIdle, concNfs, conn_track, elem, bucket>>

\* lines 239-249: the file event, if reserved, reads cache_entry->file_size
ingress_file_event(i, ok) ==
    /\ variant = "http"
    /\ inv[i].pc = "size"
    /\ inv' = [inv EXCEPT
                 ![i].seen = IF ok THEN Append(@, elem[inv[i].ptr].gen) ELSE @,
                 ![i].pc   = "track"]
    /\ UNCHANGED <<concIdle, concNfs, concHttp>>

\* lines 250-265: the entry is missing or not valid
ingress_forward(i) ==
    /\ variant = "http"
    /\ inv[i].pc = "forward"
    /\ stats' = update_stats(stats, 2, 1)
    /\ inv' = [inv EXCEPT ![i].pc = "track", ![i].did = @ \cup {2}]
    /\ UNCHANGED <<concIdle, concNfs, conn_track, elem, bucket>>

\* lines 288-292
ingress_track(i) ==
    /\ variant = "http"
    /\ inv[i].pc = "track"
    /\ conn_track' = Put(conn_track, ConcClient, now)
    /\ inv' = [inv EXCEPT ![i].pc = "done"]
    /\ UNCHANGED <<concIdle, concNfs, stats, elem, bucket>>

\* cache_file_in_kernel (fileserver.c 214-248) on test.txt, by the control plane
\* (invocation 0 counts its updates in reg).
http_refresh(size) ==
    LET a == AllocElem(elem, bucket, ConcKey)
    IN
    /\ variant = "http"
    /\ inv[0].reg < MaxRefresh
    /\ size <= MAX_PACKET_SIZE
    /\ elem' = StoreElem(elem, a, [file_size |-> size, valid |-> 1, cache_hits |-> 0,
                                   gen |-> inv[0].reg + 1])
    /\ bucket' = Put(bucket, ConcKey, a)
    /\ inv' = [inv EXCEPT ![0].reg = @ + 1]
    /\ UNCHANGED <<concIdle, concNfs, stats, conn_track>>

\* nfs_server_tc, lines 618-632
tc_track(i, procedure) ==
    /\ variant = "nfs"
    /\ inv[i].pc = "start"
    /\ client_track' = Put(client_track, ConcClient, Touched(ConcClient))
    /\ inv' = [inv EXCEPT ![i].procedure = procedure,
                          ![i].inmap = Has(client_track, ConcClient),
                          ![i].pc = "reserve"]
    /\ UNCHANGED <<concIdle, concHttp, nfs_stats, nfs_file_cache, fh_to_name>>

\* lines 635-654: both records are reserved, or the handler returns
tc_reserve(i, ok) ==
    /\ variant = "nfs"
    /\ inv[i].pc = "reserve"
    /\ inv' = [inv EXCEPT ![i].pc = IF ok THEN "switch" ELSE "done"]
    /\ UNCHANGED <<concIdle, concHttp, concNfs>>

\* lines 667-690 with handle_nfs_getattr / handle_nfs_read
tc_switch(i) ==
    LET o == NfsOutcome(inv[i].procedure)
    IN
    /\ variant = "nfs"
    /\ inv[i].pc = "switch"
    /\ nfs_file_cache' =
          IF o.hit THEN [nfs_file_cache EXCEPT ![o.filename].cache_hits = @ + 1]
          ELSE nfs_file_cache
    /\ nfs_stats' = IF o.handled # 0 THEN update_nfs_stats(nfs_stats, 1, 1) ELSE nfs_stats
    /\ inv' = [inv EXCEPT ![i].handled = o.handled, ![i].pc = "total",
                          ![i].did = IF o.handled # 0 THEN @ \cup {1} ELSE @]
    /\ UNCHANGED <<concIdle, concHttp, client_track, fh_to_name>>

\* line 693
tc_total(i) ==
    /\ variant = "nfs"
    /\ inv[i].pc = "total"
    /\ nfs_stats' = update_nfs_stats(nfs_stats, 0, 1)
    /\ inv' = [inv EXCEPT ![i].pc = "class", ![i].did = @ \cup {0}]
    /\ UNCHANGED <<concIdle, concHttp, client_track, nfs_file_cache, fh_to_name>>

\* lines 694-706
tc_class(i) ==
    /\ variant = "nfs"
    /\ inv[i].pc = "class"
    /\ client_track' =
          IF ~inv[i].inmap THEN client_track
          ELSE IF inv[i].handled # 0
          THEN [client_track EXCEPT ![ConcClient].kernel_processed = @ + 1]
          ELSE [client_track EXCEPT ![ConcClient].user_forwarded = @ + 1]
    /\ nfs_stats' = IF inv[i].handled = 0 THEN update_nfs_stats(nfs_stats, 2, 1)
                    ELSE nfs_stats
    /\ inv' = [inv EXCEPT ![i].pc = "done",
                          ![i].did = IF inv[i].handled = 0 THEN @ \cup {2} ELSE @]
    /\ UNCHANGED <<concIdle, concHttp, nfs_file_cache, fh_to_name>>

\* cache_file_in_kernel (nfs_server.c 152-217) on test.txt: line 209
nfs_refresh_cache(size) ==
    /\ variant = "nfs"
    /\ inv[0].pc = "start"
    /\ NfsCacheable(size)
    /\ nfs_file_cache' = Put(nfs_file_cache, ConcKey, NfsCacheEntry(nTest, size))
    /\ inv' = [inv EXCEPT ![0].pc = "fh"]
    /\ UNCHANGED <<concIdle, concHttp, nfs_stats, client_track, fh_to_name>>

\* line 213
nfs_refresh_fh ==
    /\ variant = "nfs"
    /\ inv[0].pc = "fh"
    /\ fh_to_name' = Put(fh_to_name, generate_nfs_file_handle(nTest), nTest)
    /\ inv' = [inv EXCEPT ![0].pc = "done"]
    /\ UNCHANGED <<concIdle, concHttp, nfs_stats, client_track, nfs_file_cache>>

ConcInit ==
    /\ variant \in {"http", "nfs"}
    /\ enable_kernel_processing = 1
    /\ enable_kernel_cache = TRUE
    /\ now = 0
    /\ file_cache = EmptyMap
    /\ http_cached_at = EmptyMap
    /\ conn_track = EmptyMap
    /\ stats = ZeroStats
    /\ events = <<>>
    /\ ustats = ZeroUstats
    /\ sock = <<>>
    /\ nfs_file_cache = EmptyMap
    /\ fh_to_name = EmptyMap
    /\ client_track = EmptyMap
    /\ nfs_stats = ZeroStats
    /\ nfs_events = <<>>
    /\ precached = FALSE
    /\ arrived = 0
    /\ last = Observed("init", NoFrame, "none", <<>>, 0, "none")
    /\ inv = [i \in 0..NInv |-> Idle]
    /\ elem = <<>>
    /\ bucket = EmptyMap
    /\ loop = <<>>
    /\ read = <<>>
    /\ parse = <<>>
    /\ chan = <<>>

ConcNext ==
    \/ \E i \in Invocations : ingress_total(i)
    \/ \E i \in Invocations, ok \in BOOLEAN : ingress_reserve(i, ok)
    \/ \E i \in Invocations : ingress_lookup(i)
    \/ \E i \in Invocations : ingress_valid(i)
    \/ \E i \in Invocations : ingress_hits_load(i)
    \/ \E i \in Invocations : ingress_hits_store(i)
    \/ \E i \in Invocations : ingress_kernel(i)
    \/ \E i \in Invocations, ok \in BOOLEAN : ingress_file_event(i, ok)
    \/ \E i \in Invocations : ingress_forward(i)
    \/ \E i \in Invocations : ingress_track(i)
    \/ \E size \in ConcSizes : http_refresh(size)
    \/ \E i \in Invocations, procedure \in ConcProcedures : tc_track(i, procedure)
    \/ \E i \in Invocations, ok \in BOOLEAN : tc_reserve(i, ok)
    \/ \E i \in Invocations : tc_switch(i)
    \/ \E i \in Invocations : tc_total(i)
    \/ \E i \in Invocations : tc_class(i)
    \/ \E size \in ConcSizes : nfs_refresh_cache(size)
    \/ nfs_refresh_fh

ConcSpec == ConcInit /\ [][ConcNext]_vars

(***************************************************************************)
(* C16.  In every state, the intermediate states of running invocations     *)
(* included, the kernel-served counter plus the forwarded counter does not  *)
(* exceed the counter of recognized requests.                               *)
(***************************************************************************)
Counters == IF variant = "http" THEN stats ELSE nfs_stats

C16_ServedAndForwardedWithinTotal == Counters[1] + Counters[2] <= Counters[0]

(***************************************************************************)
(* C17.  Under every interleaving each statistics counter equals the        *)
(* number of increments the invocations have made to it so far (no update   *)
(* is lost), and no step lowers a counter.                                  *)
(***************************************************************************)
Raised(c) == Cardinality({i \in Invocations : c \in inv[i].did})

CountersExact == \A c \in 0..2 : Counters[c] = Raised(c)

CountersMonotone ==
    \A c \in 0..4 : stats'[c] >= stats[c] /\ nfs_stats'[c] >= nfs_stats[c]

C17_CountersExactAndMonotone == []CountersExact /\ [][CountersMonotone]_vars

\* Every invocation has finished after raising the total, which counts them all.
C17_Witness ==
    /\ \A i \in Invocations : inv[i].pc = "done" /\ 0 \in inv[i].did
    /\ Counters[0] = NInv

(***************************************************************************)
(* C18.  The hit counter of a cache element counts every invocation that    *)
(* decided KernelServed on it: once no invocation is between the load and   *)
(* the store of its increment, cache_hits equals the number of invocations  *)
(* that have incremented that element (no refresh intervenes: a refresh     *)
(* links another element).                                                  *)
(***************************************************************************)
HitOn(p) ==
    {i \in Invocations : inv[i].ptr = p /\ inv[i].handled # 0}

C18_HitsCounted ==
    \A p \in 1..Len(elem) :
        (\A i \in Invocations : inv[i].ptr = p => inv[i].pc # "store")
        => elem[p].cache_hits = Cardinality(HitOn(p))

HttpEntryOk(e) == e.file_size >= 0 /\ e.file_size <= MAX_PACKET_SIZE

NfsEntryOk(e) ==
    /\ e.data_valid # 0 => e.valid # 0
    /\ e.data_size >= 0
    /\ e.data_size <= MAX_NFS_DATA_SIZE

C20_EntriesWellFormed ==
    /\ \A k \in DOMAIN file_cache : HttpEntryOk(file_cache[k])
    /\ \A k \in DOMAIN nfs_file_cache : NfsEntryOk(nfs_file_cache[k])

\* A 5000-byte test.txt is cached with its data, and the engine has run since.
C20_Witness ==
    /\ variant = "nfs"
    /\ last.actor = "engine"
    /\ \E k \in DOMAIN nfs_file_cache :
          /\ nfs_file_cache[k].data_size = 5000
          /\ nfs_file_cache[k].data_valid # 0

(***************************************************************************)
(* C21.  A step of the engine, whatever the frame and the outcome, leaves   *)
(* the keys of the cache store and the handle mappings as they are; the     *)
(* only cache field it changes is the hit counter of the entry it served,   *)
(* and a step that is not decided KernelServed changes no cache field.      *)
(***************************************************************************)
SameButHits(old, new) ==
    /\ DOMAIN new = DOMAIN old
    /\ \A k \in DOMAIN old :
          \/ new[k] = old[k]
          \/ /\ last'.decision = "KernelServed"
             /\ k = last'.key
             /\ new[k] = [old[k] EXCEPT !.cache_hits = @ + 1]

C21_EngineOnlyMarksHits ==
    [][ last'.actor = "engine" =>
          /\ SameButHits(file_cache, file_cache')
          /\ SameButHits(nfs_file_cache, nfs_file_cache')
          /\ fh_to_name' = fh_to_name
          /\ http_cached_at' = http_cached_at ]_vars

\* A KernelServed step has raised the hit counter of the entry it served.
C21_Witness ==
    /\ variant = "http"
    /\ Recognized
    /\ last.decision = "KernelServed"
    /\ Has(file_cache, last.key)
    /\ file_cache[last.key].cache_hits = 1

(***************************************************************************)
(* C22.  Remote-filesystem variant, invocations one after another: the      *)
(* first recognized request from an address creates its tracker state with  *)
(* request_count 1; each later one sets last_request_time to the time of    *)
(* the request and raises request_count by exactly 1; no step of the engine *)
(* removes a tracker entry.                                                 *)
(***************************************************************************)
ClientOf(d) == <<10, 0, 0, d.src>>

C22_TrackerTouch ==
    [][ (variant = "nfs" /\ last'.actor = "engine") =>
          /\ DOMAIN client_track \subseteq DOMAIN client_track'
          /\ Recognized' =>
               LET a == ClientOf(last'.frame)
               IN  /\ Has(client_track', a)
                   /\ client_track'[a].last_request_time = now
                   /\ client_track'[a].request_count =
                         IF Has(client_track, a)
                         THEN client_track[a].request_count + 1 ELSE 1 ]_vars

\* The second recognized request of a client, at a later time than its first.
C22_Witness ==
    /\ variant = "nfs"
    /\ Recognized
    /\ Has(client_track, ClientOf(last.frame))
    /\ client_track[ClientOf(last.frame)].request_count = 2
    /\ client_track[ClientOf(last.frame)].last_request_time = TickSeconds

(***************************************************************************)
(* C23.  Remote-filesystem variant, invocations one after another, ring     *)
(* never full: every recognized request raises exactly one of the two       *)
(* class counters of its client's stored state, so that kernel_processed +  *)
(* user_forwarded = request_count after every request.                      *)
(***************************************************************************)
ClassSum(track, a) ==
    IF Has(track, a) THEN track[a].kernel_processed + track[a].user_forwarded ELSE 0

C23_ClassCountersFollow ==
    [][ (variant = "nfs" /\ Recognized' /\ last'.decision # "NoDecision") =>
          LET a == ClientOf(last'.frame)
          IN  /\ ClassSum(client_track', a) = ClassSum(client_track, a) + 1
              /\ ClassSum(client_track', a) = client_track'[a].request_count ]_vars

(***************************************************************************)
(* Shutdown of the control plane.                                           *)
(*                                                                          *)
(* The main loops of fileserver.c (335-372) and nfs_server.c (526-553),     *)
(* one step per system call, with the signal handler that sets exiting and  *)
(* clients that connect (or send a datagram), then send, close or stay      *)
(* silent.  loop.backlog counts what waits on the server socket, loop.conn  *)
(* is the state of the accepted connection, loop.received and loop.replies  *)
(* count the requests taken and the responses sent.                         *)
(***************************************************************************)
MaxClients == 2

exitIdle == <<cfgVars, now, httpVars, nfsVars, ustats, sock, arrived, last,
              inv, elem, bucket, read, parse, chan>>

\* while (!exiting)
loop_while ==
    /\ loop.pc = "while"
    /\ loop' = [loop EXCEPT !.pc = IF loop.exiting THEN "exited"
                                   ELSE IF variant = "http" THEN "select" ELSE "poll"]
    /\ UNCHANGED exitIdle

\* select() with its 100 ms timeout: readable, or timed out
loop_select ==
    /\ loop.pc = "select"
    /\ loop' = [loop EXCEPT
                  !.ready = loop.backlog > 0,
                  !.pc = IF variant = "http" THEN "poll"
                         ELSE IF loop.backlog > 0 THEN "recv" ELSE "while"]
    /\ UNCHANGED exitIdle

\* ring_buffer__poll: non-blocking (fileserver.c 351) or 100 ms (nfs_server.c 528)
loop_poll ==
    /\ loop.pc = "poll"
    /\ loop' = [loop EXCEPT
                  !.pc = IF variant = "nfs" THEN "select"
                         ELSE IF loop.ready THEN "accept" ELSE "while"]
    /\ UNCHANGED exitIdle

\* fileserver.c 357: accept(); the client may already have sent or closed
loop_accept(state) ==
    /\ variant = "http"
    /\ loop.pc = "accept"
    /\ loop.backlog > 0
    /\ loop' = [loop EXCEPT !.backlog = @ - 1, !.conn = state, !.pc = "recv"]
    /\ UNCHANGED exitIdle

\* fileserver.c 364: recv() on the blocking client socket returns once the
\* client has sent or closed; nfs_server.c 547: recvfrom() of the queued datagram
loop_recv ==
    /\ loop.pc = "recv"
    /\ IF variant = "http"
       THEN /\ loop.conn \in {"data", "closed"}
            /\ loop' = [loop EXCEPT
                          !.received = IF loop.conn = "data" THEN @ + 1 ELSE @,
                          !.pc = IF loop.conn = "data" THEN "handle" ELSE "close"]
       ELSE /\ loop.backlog > 0
            /\ loop' = [loop EXCEPT !.backlog = @ - 1, !.received = @ + 1,
                                    !.pc = "handle"]
    /\ UNCHANGED exitIdle

\* handle_http_request / process_nfs_request: the response is sent
loop_handle ==
    /\ loop.pc = "handle"
    /\ loop' = [loop EXCEPT !.replies = @ + 1,
                            !.pc = IF variant = "http" THEN "close" ELSE "while"]
    /\ UNCHANGED exitIdle

\* fileserver.c 370: close(client_sock)
loop_close ==
    /\ variant = "http"
    /\ loop.pc = "close"
    /\ loop' = [loop EXCEPT !.conn = "none", !.pc = "while"]
    /\ UNCHANGED exitIdle

\* sig_handler (fileserver.c 90-93, nfs_server.c 90-93), installed with
\* signal(): a blocked call is either restarted or fails with EINTR.  On
\* EINTR recv() returns -1 (the connection is closed unanswered) and
\* ring_buffer__poll returns -EINTR (nfs_server.c 529-532: break).
sig_handler(eintr) ==
    /\ ~loop.exiting
    /\ loop' = [loop EXCEPT
                  !.exiting = TRUE,
                  !.pc = IF eintr /\ variant = "http" /\ loop.pc = "recv"
                            /\ loop.conn = "open" THEN "close"
                         ELSE IF eintr /\ variant = "nfs" /\ loop.pc = "poll"
                         THEN "exited"
                         ELSE @]
    /\ UNCHANGED exitIdle

\* A client connects (file-fetch) or sends a datagram (remote filesystem).
client_connect ==
    /\ loop.arrivals < MaxClients
    /\ loop' = [loop EXCEPT !.arrivals = @ + 1, !.backlog = @ + 1]
    /\ UNCHANGED exitIdle

\* The connected client sends its request, or closes without sending.
client_send(state) ==
    /\ variant = "http"
    /\ loop.conn = "open"
    /\ loop' = [loop EXCEPT !.conn = state]
    /\ UNCHANGED exitIdle

LoopStep ==
    \/ loop_while
    \/ loop_select
    \/ loop_poll
    \/ \E state \in {"open", "data", "closed"} : loop_accept(state)
    \/ loop_recv
    \/ loop_handle
    \/ loop_close

ExitInit ==
    /\ variant \in {"http", "nfs"}
    /\ enable_kernel_processing = 1
    /\ enable_kernel_cache = TRUE
    /\ now = 0
    /\ file_cache = EmptyMap
    /\ http_cached_at = EmptyMap
    /\ conn_track = EmptyMap
    /\ stats = ZeroStats
    /\ events = <<>>
    /\ ustats = ZeroUstats
    /\ sock = <<>>
    /\ nfs_file_cache = EmptyMap
    /\ fh_to_name = EmptyMap
    /\ client_track = EmptyMap
    /\ nfs_stats = ZeroStats
    /\ nfs_events = <<>>
    /\ precached = TRUE
    /\ arrived = 0
    /\ last = Observed("init", NoFrame, "none", <<>>, 0, "none")
    /\ inv = <<>>
    /\ elem = <<>>
    /\ bucket = EmptyMap
    /\ loop = [pc |-> "while", exiting |-> FALSE, ready |-> FALSE, conn |-> "none",
               backlog |-> 0, arrivals |-> 0, received |-> 0, replies |-> 0]
    /\ read = <<>>
    /\ parse = <<>>
    /\ chan = <<>>

ExitNext ==
    \/ LoopStep
    \/ \E eintr \in BOOLEAN : sig_handler(eintr)
    \/ client_connect
    \/ \E state \in {"data", "closed"} : client_send(state)

\* The control plane is scheduled fairly; signals and clients are not obliged to act.
ExitSpec == ExitInit /\ [][ExitNext]_vars /\ WF_vars(LoopStep)

(***************************************************************************)
(* C24.  Once exiting is set the main loop of the control plane ends,       *)
(* whatever the clients do, and every request it has taken has had its      *)
(* response sent by then.                                                   *)
(***************************************************************************)
C24_ExitTerminates ==
    loop.exiting ~> (loop.pc = "exited" /\ loop.replies = loop.received)

(***************************************************************************)
(* C25.  A request on which the control plane's file access fails (file     *)
(* not found, open or read error) is answered with an error response, adds  *)
(* exactly one to file_not_found or errors, and leaves user_processed       *)
(* alone, in both variants.                                                 *)
(***************************************************************************)
ErrorResponses == {"404", "500", "NFS3ERR_NOENT", "NFS3ERR_IO"}

C25_IoFailureCounted ==
    [][(last'.actor = "control" /\ last'.resp \in ErrorResponses)
        => /\ ustats'.file_not_found + ustats'.errors
                = ustats.file_not_found + ustats.errors + 1
           /\ ustats'.user_processed = ustats.user_processed]_vars

(***************************************************************************)
(* C26.  A recognized call whose procedure the engine does not implement   *)
(* (anything but NULL, GETATTR, READ), and a recognized POST, PUT or       *)
(* DELETE, is decided ForwardToControlPlane: the forwarded counter rises   *)
(* by one, the kernel-served counter stays, the request record has         *)
(* processed_in_kernel = 0 and the operation record (the remote-filesystem *)
(* engine always writes one) has result FORWARD_TO_USER and                *)
(* forwarded_to_user = 1.                                                  *)
(***************************************************************************)
Unimplemented(op) ==
    IF variant = "http" THEN op \in {HTTP_POST, HTTP_PUT, HTTP_DELETE}
    ELSE op \notin {NFSPROC3_NULL, NFSPROC3_GETATTR, NFSPROC3_READ}

Emitted(old, new) == SubSeq(new, Len(old) + 1, Len(new))

C26_UnimplementedForwarded ==
    [][ (last'.actor = "engine" /\ last'.decision # "PassThrough"
         /\ Unimplemented(last'.op))
        => /\ last'.decision = "ForwardToControlPlane"
           /\ IF variant = "http"
              THEN /\ stats'[2] = stats[2] + 1
                   /\ stats'[1] = stats[1]
                   /\ Len(Emitted(events, events')) >= 1
                   /\ Emitted(events, events')[1].processed_in_kernel = 0
              ELSE /\ nfs_stats'[2] = nfs_stats[2] + 1
                   /\ nfs_stats'[1] = nfs_stats[1]
                   /\ Len(Emitted(nfs_events, nfs_events')) = 2
                   /\ Emitted(nfs_events, nfs_events')[1].processed_in_kernel = 0
                   /\ Emitted(nfs_events, nfs_events')[2].result = NFS_OP_FORWARD_TO_USER
                   /\ Emitted(nfs_events, nfs_events')[2].forwarded_to_user = 1 ]_vars

(***************************************************************************)
(* The READ range test on its own.                                          *)
(*                                                                          *)
(* nfs_server_tc zeroes offset, count and fh of the request record          *)
(* (lines 645-647), so the runs above reach handle_nfs_read with one input  *)
(* only.  Here test.txt is cached as main() caches it and handle_nfs_read   *)
(* is applied to request records carrying any handle, offset and count.     *)
(***************************************************************************)
MaxReads == 2

ReadSizes == {0, 23, 5000, 8192}

ReadOffsets ==
    {U32(0, 0), U32(0, 1), U32(0, 22), U32(0, 23), U32(0, 4999), U32(0, 8191),
     U32(0, 8192), U32(32768, 0), U32(65535, 65514), U32(65535, 65535)}

ReadCounts ==
    {U32(0, 0), U32(0, 1), U32(0, 22), U32(0, 23), U32(0, 24), U32(0, 8192),
     U32(0, 8193), U32(1, 0), U32(65535, 65514), U32(65535, 65535)}

ReadHandles == {ReqFh, generate_nfs_file_handle(nTest)}

readIdle == <<cfgVars, now, httpVars, ustats, sock, fh_to_name, client_track,
              nfs_events, precached, arrived, last, inv, elem, bucket, loop, parse,
              chan>>

\* handle_nfs_read on a request record with the given fields; read.before is
\* the entry's hit counter when the handler was entered.
read_request(fh, offset, count) ==
    LET o == handle_nfs_read(fh, offset, count)
    IN
    /\ nfs_file_cache[nTest].cache_hits < MaxReads
    /\ read' = [fh |-> fh, offset |-> offset, count |-> count, o |-> o,
                before |-> nfs_file_cache[nTest].cache_hits, applied |-> TRUE]
    /\ nfs_file_cache' = IF o.hit THEN MarkHit(nfs_file_cache, o.filename)
                         ELSE nfs_file_cache
    /\ nfs_stats' = IF o.handled # 0 THEN Bump(nfs_stats, 1) ELSE nfs_stats
    /\ UNCHANGED readIdle

ReadInit ==
    /\ variant = "nfs"
    /\ enable_kernel_processing = 1
    /\ enable_kernel_cache = TRUE
    /\ now = 0
    /\ file_cache = EmptyMap
    /\ http_cached_at = EmptyMap
    /\ conn_track = EmptyMap
    /\ stats = ZeroStats
    /\ events = <<>>
    /\ ustats = ZeroUstats
    /\ sock = <<>>
    /\ \E size \in ReadSizes :
          nfs_file_cache = Put(EmptyMap, KeyOf(nTest), NfsCacheEntry(nTest, size))
    /\ fh_to_name = Put(EmptyMap, generate_nfs_file_handle(nTest), nTest)
    /\ client_track = EmptyMap
    /\ nfs_stats = ZeroStats
    /\ nfs_events = <<>>
    /\ precached = TRUE
    /\ arrived = 0
    /\ last = Observed("init", NoFrame, "none", <<>>, 0, "none")
    /\ inv = <<>>
    /\ elem = <<>>
    /\ bucket = EmptyMap
    /\ loop = <<>>
    /\ read = [fh |-> ReqFh, offset |-> U32(0, 0), count |-> U32(0, 0),
               o |-> Fwd(<<>>), before |-> 0, applied |-> FALSE]
    /\ parse = <<>>
    /\ chan = <<>>

ReadNext ==
    \E fh \in ReadHandles, offset \in ReadOffsets, count \in ReadCounts :
        read_request(fh, offset, count)

ReadSpec == ReadInit /\ [][ReadNext]_vars

(***************************************************************************)
(* C27.  A READ is served by the engine only when offset < data_size,       *)
(* count <= MAX_NFS_DATA_SIZE and offset + count <= data_size as numbers    *)
(* (no 32-bit wraparound of the sum lets an out-of-range read through);     *)
(* every other READ is forwarded and leaves the hit counter as it was.      *)
(***************************************************************************)
\* a + b does not exceed c, as natural numbers.
SumWithin(a, b, c) ==
    /\ a.hi + b.hi + ((a.lo + b.lo) \div W16) < W16
    /\ ~Lt32(c, Add32(a, b))

C27_ReadInRange ==
    read.applied =>
        LET e == nfs_file_cache[nTest]
            data_size == ToU32(e.data_size)
        IN  IF read.o.handled # 0
            THEN /\ Lt32(read.offset, data_size)
                 /\ ~Lt32(ToU32(MAX_NFS_DATA_SIZE), read.count)
                 /\ SumWithin(read.offset, read.count, data_size)
                 /\ e.cache_hits = read.before + 1
            ELSE /\ read.o.result = NFS_OP_FORWARD_TO_USER
                 /\ read.o.forwarded_to_user = 1
                 /\ e.cache_hits = read.before

\* A read of the last byte of a 23-byte entry was served, and a read whose
\* offset + count wraps around 2^32 was forwarded.
C27_Witness ==
    /\ read.applied
    /\ read.o.handled # 0
    /\ read.offset = U32(0, 22) /\ read.count = U32(0, 1)
    /\ nfs_file_cache[nTest].data_size = 23

C27_WrapWitness ==
    /\ read.applied
    /\ read.o.handled = 0
    /\ read.fh = generate_nfs_file_handle(nTest)
    /\ read.offset = U32(0, 22) /\ read.count = U32(65535, 65535)
    /\ nfs_file_cache[nTest].data_size = 23

(***************************************************************************)
(* C28.  The existence test comes first: with kernel processing enabled, a  *)
(* recognized GET whose key fails check_file_exists is decided NotFound     *)
(* whatever the Cache Store holds for the key; the not-found counter rises  *)
(* by one, the kernel-served and forwarded counters and every hit counter   *)
(* stay as they were.                                                       *)
(***************************************************************************)
C28_ExistenceFirst ==
    [][ (variant = "http" /\ enable_kernel_processing # 0
         /\ last'.actor = "engine" /\ last'.decision # "PassThrough"
         /\ last'.op = HTTP_GET /\ ~check_file_exists(last'.key))
        => /\ last'.decision = "NotFound"
           /\ stats'[3] = stats[3] + 1
           /\ stats'[1] = stats[1]
           /\ stats'[2] = stats[2]
           /\ file_cache' = file_cache ]_vars

(***************************************************************************)
(* The request parser on its own.                                           *)
(*                                                                          *)
(* fileserver_ingress up to line 208 applied to TCP segments for the        *)
(* listening port that carry any payload: a token (or none), what follows   *)
(* it, a path and the rest of the request line.                             *)
(***************************************************************************)
ParseTokens ==
    {tGET, tPOST, tPUT, tDELETE, tHEAD, S(<<"G","E">>), S(<<"g","e","t">>),
     S(<<"P","O","S">>), S(<<"D","E","L","E","T">>), <<>>}

ParseSeparators == {<<>>, S(<<" ", "/">>), S(<<" ">>), S(<<"/">>)}

ParsePaths ==
    {<<>>, nTest, S(<<"a">>), S(<<"a", "\t", "b">>), <<97, 0, 98>>, <<97, 1, 98>>,
     S(<<"a", "?", "b">>), S(<<"a", "\n", "b">>), nStatic,
     S(<<"l","o","n","g","e","r","n","a","m","e",".","t","x","t">>)}

ParseRests == {<<>>, S(<<" ","H","T","T","P","/","1",".","1","\r","\n">>)}

ParsePayloads ==
    { t \o sep \o path \o rest :
        t \in ParseTokens, sep \in ParseSeparators, path \in ParsePaths,
        rest \in ParseRests }

parseIdle == <<cfgVars, now, httpVars, nfsVars, ustats, sock, arrived, last,
               inv, elem, bucket, loop, read, chan>>

\* Lines 163-208 on a segment with the given payload.
ParsedPayload ==
    [payload \in ParsePayloads |->
        HttpParsed(Frame(ETH_P_IP, IPPROTO_TCP, 5, 5, server_port, 1, payload, 0))]

parse_payload(payload) ==
    LET w == ParsedPayload[payload]
    IN
    /\ payload # <<>>
    /\ parse' = [payload |-> payload, ok |-> w.ok, method |-> w.method,
                 filename |-> w.filename, applied |-> TRUE]
    /\ UNCHANGED parseIdle

ParseInit ==
    /\ variant = "http"
    /\ enable_kernel_processing = 1
    /\ enable_kernel_cache = TRUE
    /\ now = 0
    /\ file_cache = EmptyMap
    /\ http_cached_at = EmptyMap
    /\ conn_track = EmptyMap
    /\ stats = ZeroStats
    /\ events = <<>>
    /\ ustats = ZeroUstats
    /\ sock = <<>>
    /\ nfs_file_cache = EmptyMap
    /\ fh_to_name = EmptyMap
    /\ client_track = EmptyMap
    /\ nfs_stats = ZeroStats
    /\ nfs_events = <<>>
    /\ precached = FALSE
    /\ arrived = 0
    /\ last = Observed("init", NoFrame, "none", <<>>, 0, "none")
    /\ inv = <<>>
    /\ elem = <<>>
    /\ bucket = EmptyMap
    /\ loop = <<>>
    /\ read = <<>>
    /\ parse = [payload |-> <<>>, ok |-> FALSE, method |-> HTTP_UNKNOWN,
                filename |-> <<>>, applied |-> FALSE]
    /\ chan = <<>>

ParseNext == \E payload \in ParsePayloads : parse_payload(payload)

ParseSpec == ParseInit /\ [][ParseNext]_vars

(***************************************************************************)
(* C29.  For every recognized payload the key is the run of bytes after     *)
(* "GET /" up to the first whitespace or control byte, cut to the           *)
(* filename's capacity; it holds no whitespace or control byte; and it is   *)
(* "index.html" exactly when that run is empty (no "GET /" at the start,    *)
(* every other method included, or an empty path).                          *)
(***************************************************************************)
\* j < 8 in the copy loop of extract_filename (line 102)
FilenameCapacity == 8

Blank(b) == b <= 32 \/ b = 127

StartsWith(b, prefix) ==
    Len(b) >= Len(prefix) /\ SubSeq(b, 1, Len(prefix)) = prefix

RECURSIVE Run(_)
Run(b) == IF b = <<>> \/ Blank(Head(b)) THEN <<>> ELSE <<Head(b)>> \o Run(Tail(b))

PathRun(payload) ==
    IF StartsWith(payload, S(<<"G","E","T"," ","/">>))
    THEN Run(SubSeq(payload, 6, Len(payload))) ELSE <<>>

C29_KeyIsPathRun ==
    (parse.applied /\ parse.ok) =>
        LET run == PathRun(parse.payload)
        IN  /\ \A i \in 1..Len(parse.filename) : ~Blank(parse.filename[i])
            /\ IF run = <<>> THEN parse.filename = nIndex
               ELSE /\ Len(parse.filename) <= FilenameCapacity
                    /\ StartsWith(run, parse.filename)
                    /\ Len(parse.filename) = FilenameCapacity
                          \/ parse.filename = run

(***************************************************************************)
(* C30.  A payload is recognized exactly when its first bytes spell GET,    *)
(* POST, PUT or DELETE, with method codes 1, 2, 3, 4; this includes a       *)
(* payload that is just the 3-byte token GET or PUT.  Every other payload   *)
(* is passed through.                                                       *)
(***************************************************************************)
TokenCode(payload) ==
    IF StartsWith(payload, tGET) THEN 1
    ELSE IF StartsWith(payload, tPOST) THEN 2
    ELSE IF StartsWith(payload, tPUT) THEN 3
    ELSE IF StartsWith(payload, tDELETE) THEN 4
    ELSE 0

C30_MethodRecognized ==
    parse.applied =>
        /\ parse.ok <=> TokenCode(parse.payload) # 0
        /\ parse.ok => parse.method = TokenCode(parse.payload)

(***************************************************************************)
(* C31.  Each variant recognizes one destination port only: a frame the     *)
(* engine processes (any outcome but PassThrough) is addressed to the       *)
(* remote-filesystem port, or, in the file-fetch variant, to the port the   *)
(* control plane listens on; frames to any other port are passed through.   *)
(***************************************************************************)
C31_OnePort ==
    (last.actor = "engine" /\ last.decision # "PassThrough")
    => last.frame.dport = IF variant = "http" THEN server_port ELSE NFS_PORT

(***************************************************************************)
(* The header walk on its own.                                              *)
(*                                                                          *)
(* Both handlers up to the end of their parsing, applied to one frame of    *)
(* any length with any header-length fields.  WalkTrace records where the   *)
(* walk placed the transport header and the payload and which byte offsets  *)
(* of the frame it read.                                                    *)
(***************************************************************************)
WalkIhl  == 0..15
WalkDoff == {0, 4, 5, 6, 15}
WalkCuts == {0, 10, 14, 30, 34, 40, 54, 60}

\* A 54-byte frame whose IPv4 header says ihl = 0: its total-length field reads
\* as a UDP destination port of 2049 and the bytes from its TTL on as an RPC call.
Overlapped ==
    EthHdr(ETH_P_IP)
    \o <<64, 0, 8, 1, 0, 0, 0, 0, 64, IPPROTO_UDP, 0, 0, 0, 0, 0, RPC_CALL, 0, 0, 0, 2>>
    \o Enc32(RPC_PROGRAM_NFS) \o Enc32(NFS_VERSION_3) \o Enc32(NFSPROC3_NULL)
    \o Enc32(0) \o Enc32(0)

WalkFrames ==
    { Bytes(Frame(ETH_P_IP, IPPROTO_TCP, ihl, doff, server_port, 1,
                  ReqLine(tGET, nTest), cut)) :
        ihl \in WalkIhl, doff \in WalkDoff, cut \in WalkCuts }
    \cup { Bytes(Frame(ETH_P_IP, IPPROTO_UDP, ihl, 0, NFS_PORT, 1,
                       Call(7, NFSPROC3_GETATTR), cut)) :
             ihl \in WalkIhl, cut \in WalkCuts }
    \cup { Overlapped }

Span(from, n) == from..(from + n - 1)

\* Offsets parse_http_method (57-85) and extract_filename (87-118) read.
MethodReads(f, p, len) ==
    LET end == Len(f)
    IN  IF p + 3 > end \/ len < 3 THEN {}
        ELSE Span(p, 3)
             \cup (IF p + 4 <= end /\ len >= 4 THEN Span(p, 4) ELSE {})
             \cup (IF p + 6 <= end /\ len >= 6 THEN Span(p, 6) ELSE {})

FilenameReads(f, p, len) ==
    IF len < 5 \/ p + 5 > Len(f) THEN {}
    ELSE Span(p, 5) \cup {p + i : i \in {i \in 5..12 : i < len /\ p + i < Len(f)}}

\* fileserver_ingress 163-208: where the headers were placed, what was read.
HttpWalkTrace(f) ==
    LET end  == Len(f)
        tcp  == EthLen + (B(f, EthLen) % 16) * 4
        pay  == tcp + (B(f, tcp + 12) \div 16) * 4
        plen == (end - pay) % 65536
        t(ok, l4, p, reads) == [ok |-> ok, l4 |-> l4, pay |-> p, reads |-> reads]
        r1 == Span(12, 2)
        r2 == r1 \cup {EthLen + 9}
        r3 == r2 \cup {EthLen}
        r4 == r3 \cup Span(tcp + 2, 2)
        r5 == r4 \cup {tcp + 12}
        r6 == r5 \cup MethodReads(f, pay, plen)
    IN  IF EthLen > end THEN t(FALSE, -1, -1, {})
        ELSE IF Be16(f, 12) # ETH_P_IP THEN t(FALSE, -1, -1, r1)
        ELSE IF EthLen + IpLen > end THEN t(FALSE, -1, -1, r1)
        ELSE IF B(f, EthLen + 9) # IPPROTO_TCP THEN t(FALSE, -1, -1, r2)
        ELSE IF tcp + TcpLen > end THEN t(FALSE, tcp, -1, r3)
        ELSE IF Be16(f, tcp + 2) # 80 /\ Be16(f, tcp + 2) # 8080 THEN t(FALSE, tcp, -1, r4)
        ELSE IF pay >= end THEN t(FALSE, tcp, pay, r5)
        ELSE IF plen < 4 THEN t(FALSE, tcp, pay, r5)
        ELSE IF parse_http_method(f, pay, plen) = HTTP_UNKNOWN THEN t(FALSE, tcp, pay, r6)
        ELSE t(TRUE, tcp, pay, r6 \cup Span(EthLen + 12, 4) \cup Span(tcp, 2)
                                  \cup FilenameReads(f, pay, plen))

\* nfs_server_tc 572-615 with parse_rpc_header and extract_be32 (383-411).
NfsWalkTrace(f) ==
    LET end  == Len(f)
        udp  == EthLen + (B(f, EthLen) % 16) * 4
        pay  == udp + UdpLen
        plen == (end - pay) % 65536
        t(ok, l4, p, reads) == [ok |-> ok, l4 |-> l4, pay |-> p, reads |-> reads]
        r1 == Span(12, 2)
        r2 == r1 \cup {EthLen + 9}
        r3 == r2 \cup {EthLen}
        r4 == r3 \cup Span(udp + 2, 2)
        r5 == r4 \cup {pay + o + b : o \in {o \in {0, 4, 8, 12, 16, 20, 24, 28} :
                                              pay + o + 4 <= end},
                                     b \in 0..3}
    IN  IF EthLen > end THEN t(FALSE, -1, -1, {})
        ELSE IF Be16(f, 12) # ETH_P_IP THEN t(FALSE, -1, -1, r1)
        ELSE IF EthLen + IpLen > end THEN t(FALSE, -1, -1, r1)
        ELSE IF B(f, EthLen + 9) # IPPROTO_UDP THEN t(FALSE, -1, -1, r2)
        ELSE IF udp + UdpLen > end THEN t(FALSE, udp, -1, r3)
        ELSE IF Be16(f, udp + 2) # NFS_PORT THEN t(FALSE, udp, -1, r4)
        ELSE IF pay >= end THEN t(FALSE, udp, pay, r4)
        ELSE IF plen < RpcHeaderSize THEN t(FALSE, udp, pay, r4)
        ELSE IF pay + RpcHeaderSize > end THEN t(FALSE, udp, pay, r4)
        ELSE IF ~NfsWalk(f).ok THEN t(FALSE, udp, pay, r5)
        ELSE t(TRUE, udp, pay, r5 \cup Span(EthLen + 12, 4) \cup Span(udp, 2))

walkIdle == <<cfgVars, now, httpVars, nfsVars, ustats, sock, arrived, last,
              inv, elem, bucket, loop, read, chan>>

\* The file-fetch handler walks the frame.
walk_http ==
    /\ variant = "http"
    /\ ~parse.applied
    /\ parse' = [parse EXCEPT !.applied = TRUE, !.trace = HttpWalkTrace(parse.frame),
                              !.ok = HttpWalk(parse.frame).ok]
    /\ UNCHANGED walkIdle

\* The remote-filesystem handler walks the frame.
walk_nfs ==
    /\ variant = "nfs"
    /\ ~parse.applied
    /\ parse' = [parse EXCEPT !.applied = TRUE, !.trace = NfsWalkTrace(parse.frame),
                              !.ok = NfsWalk(parse.frame).ok]
    /\ UNCHANGED walkIdle

WalkInit ==
    /\ variant \in {"http", "nfs"}
    /\ enable_kernel_processing = 1
    /\ enable_kernel_cache = TRUE
    /\ now = 0
    /\ file_cache = EmptyMap
    /\ http_cached_at = EmptyMap
    /\ conn_track = EmptyMap
    /\ stats = ZeroStats
    /\ events = <<>>
    /\ ustats = ZeroUstats
    /\ sock = <<>>
    /\ nfs_file_cache = EmptyMap
    /\ fh_to_name = EmptyMap
    /\ client_track = EmptyMap
    /\ nfs_stats = ZeroStats
    /\ nfs_events = <<>>
    /\ precached = FALSE
    /\ arrived = 0
    /\ last = Observed("init", NoFrame, "none", <<>>, 0, "none")
    /\ inv = <<>>
    /\ elem = <<>>
    /\ bucket = EmptyMap
    /\ loop = <<>>
    /\ read = <<>>
    /\ \E f \in WalkFrames :
          parse = [frame |-> f, applied |-> FALSE, ok |-> FALSE,
                   trace |-> [ok |-> FALSE, l4 |-> -1, pay |-> -1, reads |-> {}]]
    /\ chan = <<>>

WalkNext == walk_http \/ walk_nfs

WalkSpec == WalkInit /\ [][WalkNext]_vars

(***************************************************************************)
(* C32.  Whatever the frame's length and header-length fields, every byte   *)
(* the walk reads lies inside the frame, the transport header is placed at  *)
(* or after the end of the IPv4 header and the payload at or after the end  *)
(* of the transport header, and a frame that is recognized holds its        *)
(* headers and inspected payload bytes in full.                             *)
(***************************************************************************)
C32_WalkInBounds ==
    parse.applied =>
        LET t == parse.trace
            l4len == IF variant = "http" THEN TcpLen ELSE UdpLen
        IN  /\ t.ok = parse.ok
            /\ \A o \in t.reads : o >= 0 /\ o < Len(parse.frame)
            /\ t.l4 # -1 => t.l4 >= EthLen + IpLen
            /\ t.pay # -1 => t.pay >= t.l4 + l4len
            /\ t.ok => t.pay < Len(parse.frame)

MaxAttrClock == 700
AttrTick     == 50
AttrStarts   == {0, 150}

attrIdle == <<cfgVars, httpVars, ustats, sock, fh_to_name, client_track,
              nfs_events, precached, arrived, last, inv, elem, bucket, loop, parse,
              chan>>

\* bpf_ktime_get_ns() moves on.
attr_tick ==
    /\ now < MaxAttrClock
    /\ now' = now + AttrTick
    /\ UNCHANGED <<attrIdle, nfs_file_cache, nfs_stats, read>>

\* handle_nfs_getattr on a request record with the given handle.
attr_request(fh) ==
    LET o == handle_nfs_getattr(fh)
    IN
    /\ nfs_file_cache[nTest].cache_hits < MaxReads
    /\ read' = [read EXCEPT !.fh = fh, !.o = o, !.at = now, !.applied = TRUE]
    /\ nfs_file_cache' = IF o.hit THEN MarkHit(nfs_file_cache, o.filename)
                         ELSE nfs_file_cache
    /\ nfs_stats' = IF o.handled # 0 THEN Bump(nfs_stats, 1) ELSE nfs_stats
    /\ UNCHANGED <<attrIdle, now>>

AttrInit ==
    /\ variant = "nfs"
    /\ enable_kernel_processing = 1
    /\ enable_kernel_cache = TRUE
    /\ now \in AttrStarts
    /\ file_cache = EmptyMap
    /\ http_cached_at = EmptyMap
    /\ conn_track = EmptyMap
    /\ stats = ZeroStats
    /\ events = <<>>
    /\ ustats = ZeroUstats
    /\ sock = <<>>
    /\ nfs_file_cache = Put(EmptyMap, KeyOf(nTest), NfsCacheEntry(nTest, 23))
    /\ fh_to_name = Put(EmptyMap, generate_nfs_file_handle(nTest), nTest)
    /\ client_track = EmptyMap
    /\ nfs_stats = ZeroStats
    /\ nfs_events = <<>>
    /\ precached = TRUE
    /\ arrived = 0
    /\ last = Observed("init", NoFrame, "none", <<>>, 0, "none")
    /\ inv = <<>>
    /\ elem = <<>>
    /\ bucket = EmptyMap
    /\ loop = <<>>
    /\ read = [fh |-> ReqFh, o |-> Fwd(<<>>), written |-> now, at |-> now,
               applied |-> FALSE]
    /\ parse = <<>>
    /\ chan = <<>>

AttrNext ==
    \/ attr_tick
    \/ \E fh \in ReadHandles : attr_request(fh)

AttrSpec == AttrInit /\ [][AttrNext]_vars

(***************************************************************************)
(* C34.  A GETATTR for an entry the control plane has just written is       *)
(* served by the engine until ttl seconds have passed on the engine's       *)
(* clock, whatever the two clocks read.                                     *)
(***************************************************************************)
C34_FreshUntilTtl ==
    (read.applied /\ read.fh = generate_nfs_file_handle(nTest)
     /\ read.at - read.written <= cache_ttl_seconds)
    => read.o.handled # 0

(***************************************************************************)
(* The event channel under interleaving.                                    *)
(*                                                                          *)
(* NInv invocations of one handler run their ring-buffer calls in any       *)
(* interleaving with each other and with the consumer.  chan.rec lists      *)
(* every record ever reserved (its owner, kind, state and the number of     *)
(* submit/discard calls made on it), chan.slots the records still in the    *)
(* ring in reservation order, chan.got what the consumer's callback was     *)
(* handed.  bpf_ringbuf_reserve fails when the ring has no room; the        *)
(* consumer takes records in reservation order, stops at one that is still  *)
(* reserved and skips discarded ones.                                       *)
(***************************************************************************)
RingCap == 3

Handlers == 1..NInv

Room(c) == Len(c.slots) < RingCap

Reserve(c, i, kind) ==
    [c EXCEPT !.rec = Append(@, [owner |-> i, kind |-> kind, state |-> "busy",
                                 ends |-> 0]),
              !.slots = Append(@, Len(c.rec) + 1)]

\* bpf_ringbuf_submit
Submit(c, id) == [c EXCEPT !.rec[id].state = "committed", !.rec[id].ends = @ + 1]

\* A failure path that returns without releasing the record.
Forget(c, id) == c

\* bpf_ringbuf_discard
Discard(c, id) == [c EXCEPT !.rec[id].state = "discarded", !.rec[id].ends = @ + 1]

\* A consumer that takes any finished record, whatever precedes it.
ReadyAnywhere(c) == {p \in 1..Len(c.slots) : c.rec[c.slots[p]].state # "busy"}

\* ring_buffer__poll: the positions of chan.slots the consumer may take next.
Ready(c) ==
    IF c.slots # <<>> /\ c.rec[Head(c.slots)].state # "busy" THEN {1} ELSE {}

Without(s, p) == SubSeq(s, 1, p - 1) \o SubSeq(s, p + 1, Len(s))

chanIdle == <<cfgVars, now, httpVars, nfsVars, ustats, sock, arrived, last,
              elem, bucket, loop, read, parse>>

\* fileserver.bpf.c 214-216, nfs_server.bpf.c 635-637: the request record
chan_reserve_req(i) ==
    /\ inv[i].pc = "start"
    /\ IF Room(chan)
       THEN /\ chan' = Reserve(chan, i, "req")
            /\ inv' = [inv EXCEPT ![i].req = Len(chan.rec) + 1,
                                  ![i].pc = IF variant = "http" THEN "decide"
                                            ELSE "reserve_op"]
       ELSE /\ inv' = [inv EXCEPT ![i].pc = "done"]
            /\ UNCHANGED chan
    /\ UNCHANGED chanIdle

\* fileserver.bpf.c 226-285: the branches of a GET with kernel processing
\* reserve a file record (239, 255, 269) and go on without it when that fails;
\* the other requests have none.
chan_reserve_file(i, wanted) ==
    /\ variant = "http"
    /\ inv[i].pc = "decide"
    /\ IF wanted /\ Room(chan)
       THEN /\ chan' = Reserve(chan, i, "op")
            /\ inv' = [inv EXCEPT ![i].op = Len(chan.rec) + 1, ![i].pc = "submit_file"]
       ELSE /\ inv' = [inv EXCEPT ![i].pc = "submit_req"]
            /\ UNCHANGED chan
    /\ UNCHANGED chanIdle

\* fileserver.bpf.c 248, 264, 278: bpf_ringbuf_submit(file_event, 0)
chan_submit_file(i) ==
    /\ inv[i].pc = "submit_file"
    /\ chan' = Submit(chan, inv[i].op)
    /\ inv' = [inv EXCEPT ![i].pc = "submit_req"]
    /\ UNCHANGED chanIdle

\* nfs_server.bpf.c 650-654: the operation record, or the request record's discard
chan_reserve_op(i) ==
    /\ variant = "nfs"
    /\ inv[i].pc = "reserve_op"
    /\ IF Room(chan)
       THEN /\ chan' = Reserve(chan, i, "op")
            /\ inv' = [inv EXCEPT ![i].op = Len(chan.rec) + 1, ![i].pc = "submit_req"]
       ELSE /\ chan' = Discard(chan, inv[i].req)
            /\ inv' = [inv EXCEPT ![i].pc = "done"]
    /\ UNCHANGED chanIdle

\* fileserver.bpf.c 291, nfs_server.bpf.c 703: bpf_ringbuf_submit(req_event, 0)
chan_submit_req(i) ==
    /\ inv[i].pc = "submit_req"
    /\ chan' = Submit(chan, inv[i].req)
    /\ inv' = [inv EXCEPT ![i].pc = IF variant = "http" THEN "done" ELSE "submit_op"]
    /\ UNCHANGED chanIdle

\* nfs_server.bpf.c 704: bpf_ringbuf_submit(nfs_event, 0)
chan_submit_op(i) ==
    /\ inv[i].pc = "submit_op"
    /\ chan' = Submit(chan, inv[i].op)
    /\ inv' = [inv EXCEPT ![i].pc = "done"]
    /\ UNCHANGED chanIdle

\* ring_buffer__poll hands the next record to handle_event.
chan_consume ==
    /\ \E p \in Ready(chan) :
          chan' = [chan EXCEPT
                     !.slots = Without(@, p),
                     !.got = IF chan.rec[chan.slots[p]].state = "committed"
                             THEN Append(@, chan.slots[p]) ELSE @]
    /\ UNCHANGED <<chanIdle, inv>>

ChanInit ==
    /\ variant \in {"http", "nfs"}
    /\ enable_kernel_processing = 1
    /\ enable_kernel_cache = TRUE
    /\ now = 0
    /\ file_cache = EmptyMap
    /\ http_cached_at = EmptyMap
    /\ conn_track = EmptyMap
    /\ stats = ZeroStats
    /\ events = <<>>
    /\ ustats = ZeroUstats
    /\ sock = <<>>
    /\ nfs_file_cache = EmptyMap
    /\ fh_to_name = EmptyMap
    /\ client_track = EmptyMap
    /\ nfs_stats = ZeroStats
    /\ nfs_events = <<>>
    /\ precached = TRUE
    /\ arrived = 0
    /\ last = Observed("init", NoFrame, "none", <<>>, 0, "none")
    /\ inv = [i \in Handlers |-> [pc |-> "start", req |-> 0, op |-> 0]]
    /\ elem = <<>>
    /\ bucket = EmptyMap
    /\ loop = <<>>
    /\ read = <<>>
    /\ parse = <<>>
    /\ chan = [rec |-> <<>>, slots |-> <<>>, got |-> <<>>]

ChanNext ==
    \/ \E i \in Handlers : chan_reserve_req(i)
    \/ \E i \in Handlers, wanted \in BOOLEAN : chan_reserve_file(i, wanted)
    \/ \E i \in Handlers : chan_submit_file(i)
    \/ \E i \in Handlers : chan_reserve_op(i)
    \/ \E i \in Handlers : chan_submit_req(i)
    \/ \E i \in Handlers : chan_submit_op(i)
    \/ chan_consume

ChanSpec == ChanInit /\ [][ChanNext]_vars

(***************************************************************************)
(* C35.  Under any interleaving the consumer is handed an invocation's      *)
(* operation (file) record only after that invocation's request record,     *)
(* whichever of the two was committed first, and it is never handed a       *)
(* record that is not committed.                                            *)
(***************************************************************************)
C35_RequestBeforeOperation ==
    \A p \in 1..Len(chan.got) :
        LET r == chan.rec[chan.got[p]]
        IN  /\ r.state = "committed"
            /\ r.kind = "op" =>
                  \E q \in 1..(p - 1) :
                      /\ chan.rec[chan.got[q]].owner = r.owner
                      /\ chan.rec[chan.got[q]].kind = "req"

\* File-fetch variant: the consumer has both records of one invocation, whose
\* file record was committed first, while another invocation holds a record.
C35_Witness ==
    /\ variant = "http"
    /\ \E p \in 1..Len(chan.got) : chan.rec[chan.got[p]].kind = "op"
    /\ \E id \in 1..Len(chan.rec) : chan.rec[id].state = "busy"

(***************************************************************************)
(* C36.  No record is submitted or discarded twice; when a handler has      *)
(* returned, each record it reserved has been submitted or discarded        *)
(* exactly once; a request record discarded because the second reservation  *)
(* failed is never handed to the consumer.                                  *)
(***************************************************************************)
C36_ReservationDiscipline ==
    /\ \A id \in 1..Len(chan.rec) :
          /\ chan.rec[id].ends <= 1
          /\ inv[chan.rec[id].owner].pc = "done" => chan.rec[id].ends = 1
    /\ \A p \in 1..Len(chan.got) : chan.rec[chan.got[p]].state # "discarded"
    /\ \A i \in Handlers :
          (variant = "nfs" /\ inv[i].pc = "done" /\ inv[i].req # 0 /\ inv[i].op = 0)
          => chan.rec[inv[i].req].state = "discarded"

\* Remote-filesystem variant: a handler returned after its second reservation
\* failed, and the consumer has gone past the discarded record.
C36_Witness ==
    /\ variant = "nfs"
    /\ \E i \in Handlers :
          /\ inv[i].pc = "done" /\ inv[i].req # 0 /\ inv[i].op = 0
          /\ \A p \in 1..Len(chan.slots) : chan.slots[p] # inv[i].req

(***************************************************************************)
(* C37.  The records the engine emits for one request agree with each       *)
(* other.  Remote-filesystem variant: processed_in_kernel = 1 exactly when  *)
(* forwarded_to_user = 0, exactly when result = NFS_OP_SUCCESS, and         *)
(* from_cache = 1 only with NFS_OP_SUCCESS.  File-fetch variant: a request  *)
(* record with processed_in_kernel = 1 is followed, if at all, by a file    *)
(* record with FILE_OP_SUCCESS and forwarded_to_user = 0, and one with      *)
(* processed_in_kernel = 0 is never followed by a FILE_OP_SUCCESS record.   *)
(***************************************************************************)
\* The file record of the request record at position i of the ring, if any.
FileRecordOf(i) ==
    IF i < Len(events) /\ events[i + 1].type = "file_event" THEN {events[i + 1]} ELSE {}

C37_RecordsConsistent ==
    /\ \A i \in 1..Len(nfs_events) :
          nfs_events[i].type = "nfs_request" =>
             /\ i < Len(nfs_events)
             /\ nfs_events[i + 1].type = "nfs_event"
             /\ (nfs_events[i].processed_in_kernel = 1)
                   <=> (nfs_events[i + 1].forwarded_to_user = 0)
             /\ (nfs_events[i + 1].forwarded_to_user = 0)
                   <=> (nfs_events[i + 1].result = NFS_OP_SUCCESS)
             /\ nfs_events[i + 1].from_cache = 1
                   => nfs_events[i + 1].result = NFS_OP_SUCCESS
    /\ \A i \in 1..Len(events) :
          events[i].type = "http_request" =>
             \A r \in FileRecordOf(i) :
                IF events[i].processed_in_kernel = 1
                THEN r.result = FILE_OP_SUCCESS /\ r.forwarded_to_user = 0
                ELSE r.result # FILE_OP_SUCCESS

\* The ring holds the two records of a NULL call served by the engine; or the
\* two records of a GET served from the cache.
C37_Witness ==
    \/ \E i \in 1..Len(nfs_events) :
          nfs_events[i].type = "nfs_request" /\ nfs_events[i].processed_in_kernel = 1
    \/ \E i \in 1..Len(events) :
          /\ events[i].type = "http_request" /\ events[i].processed_in_kernel = 1
          /\ FileRecordOf(i) # {}

(***************************************************************************)
(* The file-fetch control plane on its own.                                 *)
(*                                                                          *)
(* handle_http_request applied to request lines as they are received,       *)
(* names that leave the document root included.                             *)
(***************************************************************************)
MaxServe == 3

nMissing == S(<<"n", "o", "f", "i", "l", "e">>)

ServeRequests ==
    { ReqLine(tGET, p) : p \in {<<>>, nTest, nNew, nBig, nMissing, nOutside} }
    \cup { ReqLine(tPOST, nOutside), tGET }

ServeLines == [request \in ServeRequests |-> ParseRequestLine(request)]

serveIdle == <<cfgVars, now, conn_track, stats, events, nfsVars, sock, arrived,
               inv, elem, bucket, loop, read, parse, chan>>

\* handle_http_request (251-282) on one received request.
handle_http_request(request) ==
    LET req == ServeLines[request]
        fn  == req.filename
        st  == ServeStatus(fn)
    IN
    /\ ustats.total_requests < MaxServe
    /\ UNCHANGED serveIdle
    /\ IF ~req.ok
       THEN /\ UNCHANGED <<file_cache, http_cached_at, ustats>>
            /\ last' = Observed("control", NoFrame, "none", <<>>, 0, "400")
       ELSE IF req.method # tGET
       THEN /\ ustats' = [ustats EXCEPT !.total_requests = @ + 1]
            /\ UNCHANGED <<file_cache, http_cached_at>>
            /\ last' = Observed("control", NoFrame, "none", KeyOf(fn), 0, "405")
       ELSE /\ IF HttpCacheable(fn)
               THEN /\ file_cache' = Put(file_cache, KeyOf(fn), HttpCacheEntry(fn))
                    /\ http_cached_at' = Put(http_cached_at, KeyOf(fn), now)
               ELSE UNCHANGED <<file_cache, http_cached_at>>
            /\ ustats' = [ustats EXCEPT
                            !.total_requests = @ + 1,
                            !.file_not_found = IF st = "404" THEN @ + 1 ELSE @,
                            !.user_processed = IF st = "200" THEN @ + 1 ELSE @]
            /\ last' = Observed("control", NoFrame,
                                IF HttpCacheable(fn) THEN "refresh" ELSE "none",
                                KeyOf(fn), 0, st)

ServeInit ==
    /\ variant = "http"
    /\ enable_kernel_processing = 1
    /\ enable_kernel_cache \in BOOLEAN
    /\ now = 0
    /\ file_cache = EmptyMap
    /\ http_cached_at = EmptyMap
    /\ conn_track = EmptyMap
    /\ stats = ZeroStats
    /\ events = <<>>
    /\ ustats = ZeroUstats
    /\ sock = <<>>
    /\ nfs_file_cache = EmptyMap
    /\ fh_to_name = EmptyMap
    /\ client_track = EmptyMap
    /\ nfs_stats = ZeroStats
    /\ nfs_events = <<>>
    /\ precached = FALSE
    /\ arrived = 0
    /\ last = Observed("init", NoFrame, "none", <<>>, 0, "none")
    /\ inv = <<>>
    /\ elem = <<>>
    /\ bucket = EmptyMap
    /\ loop = <<>>
    /\ read = <<>>
    /\ parse = <<>>
    /\ chan = <<>>

ServeNext == \E request \in ServeRequests : handle_http_request(request)

ServeSpec == ServeInit /\ [][ServeNext]_vars

(***************************************************************************)
(* C38.  A GET whose filename contains ".." or "//" is answered 403 and     *)
(* leaves the Cache Store as it was: no key of the Cache Store contains     *)
(* ".." or "//".                                                            *)
(***************************************************************************)
Traversal(name) == HasSub(name, S(<<".", ".">>)) \/ HasSub(name, S(<<"/", "/">>))

C38_TraversalRefused ==
    /\ \A k \in DOMAIN file_cache : ~Traversal(k)
    /\ (last.actor = "control" /\ last.resp \in {"200", "404"}) => ~Traversal(last.key)

(***************************************************************************)
(* The remote-filesystem control plane's exit status.                       *)
(*                                                                          *)
(* main (nfs_server.c 414-565): err is set by each startup step and by      *)
(* every ring_buffer__poll, and the process returns -err.  The variable     *)
(* loop is [pc, exiting, failed, err, ring, made, status].                  *)
(***************************************************************************)
MaxRecords == 3

\* errno values of the failures modelled: EINTR and EBADF.
EINTR == 4

EBADF == 9

\* The status the parent sees for "return -err" from main: its low 8 bits.
ExitStatus(err) == (0 - err) % 256

\* The engine appends one record to the event channel.
engine_emit ==
    /\ loop.pc # "exited"
    /\ loop.made < MaxRecords
    /\ loop' = [loop EXCEPT !.ring = @ + 1, !.made = @ + 1]
    /\ UNCHANGED exitIdle

\* sig_handler (90-93)
main_signal ==
    /\ loop.pc \in {"while", "select"}
    /\ ~loop.exiting
    /\ loop' = [loop EXCEPT !.exiting = TRUE]
    /\ UNCHANGED exitIdle

\* while (!exiting) (526)
main_while ==
    /\ loop.pc = "while"
    /\ loop' = [loop EXCEPT !.pc = IF loop.exiting THEN "cleanup" ELSE "poll"]
    /\ UNCHANGED exitIdle

\* err = ring_buffer__poll(rb, 100) (528): the number of records consumed,
\* -EINTR when a signal interrupts the wait (the handler has run), or another
\* negative errno.
main_poll(result) ==
    /\ loop.pc = "poll"
    /\ result \in {loop.ring, 0 - EINTR, 0 - EBADF}
    /\ loop' =
         IF result = 0 - EINTR
         THEN [loop EXCEPT !.pc = "cleanup", !.err = 0, !.exiting = TRUE]
         ELSE IF result < 0
         THEN [loop EXCEPT !.pc = "cleanup", !.err = result, !.failed = TRUE]
         ELSE [loop EXCEPT !.pc = "select", !.err = result, !.ring = 0]
    /\ UNCHANGED exitIdle

\* select / recvfrom / process_nfs_request (537-552): err is not written.
main_select ==
    /\ loop.pc = "select"
    /\ loop' = [loop EXCEPT !.pc = "while"]
    /\ UNCHANGED exitIdle

\* cleanup: ... return -err (557-564)
main_return ==
    /\ loop.pc = "cleanup"
    /\ loop' = [loop EXCEPT !.pc = "exited", !.status = ExitStatus(loop.err)]
    /\ UNCHANGED exitIdle

\* After startup (424-521): either every step succeeded and err = 0, or one
\* failed, err holds its negative code and control is at cleanup.
MainInit ==
    /\ variant = "nfs"
    /\ enable_kernel_processing = 1
    /\ enable_kernel_cache = TRUE
    /\ now = 0
    /\ file_cache = EmptyMap
    /\ http_cached_at = EmptyMap
    /\ conn_track = EmptyMap
    /\ stats = ZeroStats
    /\ events = <<>>
    /\ ustats = ZeroUstats
    /\ sock = <<>>
    /\ nfs_file_cache = EmptyMap
    /\ fh_to_name = EmptyMap
    /\ client_track = EmptyMap
    /\ nfs_stats = ZeroStats
    /\ nfs_events = <<>>
    /\ precached = TRUE
    /\ arrived = 0
    /\ last = Observed("init", NoFrame, "none", <<>>, 0, "none")
    /\ inv = <<>>
    /\ elem = <<>>
    /\ bucket = EmptyMap
    /\ \E startup \in {0, 0 - 1, 0 - EBADF} :
         loop = [pc |-> IF startup = 0 THEN "while" ELSE "cleanup",
                 exiting |-> FALSE, failed |-> startup # 0, err |-> startup,
                 ring |-> 0, made |-> 0, status |-> 0]
    /\ read = <<>>
    /\ parse = <<>>
    /\ chan = <<>>

MainNext ==
    \/ engine_emit
    \/ main_signal
    \/ main_while
    \/ \E result \in (0 .. MaxRecords) \cup {0 - EINTR, 0 - EBADF} : main_poll(result)
    \/ main_select
    \/ main_return

MainSpec == MainInit /\ [][MainNext]_vars

(***************************************************************************)
(* C39.  A graceful shutdown (exiting set, no startup or polling failure)   *)
(* exits with status 0, whatever number of records the last poll consumed;  *)
(* a non-zero status follows only a startup or polling failure.             *)
(***************************************************************************)
C39_GracefulExitIsZero ==
    loop.pc = "exited" =>
        /\ (loop.exiting /\ ~loop.failed) => loop.status = 0
        /\ loop.status # 0 => loop.failed

(***************************************************************************)
(* Handle generation on both sides.                                         *)
(*                                                                          *)
(* A key is drawn, then the engine's generate_file_handle and the control   *)
(* plane's generate_nfs_file_handle are applied to it.  The variable parse  *)
(* is [key, engine, control]; a handle not yet generated is <<>>.           *)
(***************************************************************************)
MaxKeyLen == 5

KeyBytes == {Ord("t"), Ord("e"), Ord(".")}

HandleKeys ==
    UNION { [1..n -> KeyBytes] : n \in 0..MaxKeyLen } \cup {nTest}

handleIdle == <<cfgVars, now, httpVars, nfsVars, ustats, sock, arrived, last,
                inv, elem, bucket, loop, read, chan>>

\* nfs_server.bpf.c 421-435
handle_engine ==
    /\ parse.engine = <<>>
    /\ parse' = [parse EXCEPT !.engine = generate_file_handle(parse.key)]
    /\ UNCHANGED handleIdle

\* nfs_server.c 137-149
handle_control ==
    /\ parse.control = <<>>
    /\ parse' = [parse EXCEPT !.control = generate_nfs_file_handle(parse.key)]
    /\ UNCHANGED handleIdle

HandleInit ==
    /\ variant = "nfs"
    /\ enable_kernel_processing = 1
    /\ enable_kernel_cache = TRUE
    /\ now = 0
    /\ file_cache = EmptyMap
    /\ http_cached_at = EmptyMap
    /\ conn_track = EmptyMap
    /\ stats = ZeroStats
    /\ events = <<>>
    /\ ustats = ZeroUstats
    /\ sock = <<>>
    /\ nfs_file_cache = EmptyMap
    /\ fh_to_name = EmptyMap
    /\ client_track = EmptyMap
    /\ nfs_stats = ZeroStats
    /\ nfs_events = <<>>
    /\ precached = FALSE
    /\ arrived = 0
    /\ last = Observed("init", NoFrame, "none", <<>>, 0, "none")
    /\ inv = <<>>
    /\ elem = <<>>
    /\ bucket = EmptyMap
    /\ loop = <<>>
    /\ read = <<>>
    /\ \E key \in HandleKeys : parse = [key |-> key, engine |-> <<>>, control |-> <<>>]
    /\ chan = <<>>

HandleNext ==
    \/ handle_engine
    \/ handle_control

HandleSpec == HandleInit /\ [][HandleNext]_vars

(***************************************************************************)
(* C40.  For every key the engine's generate_file_handle and the control    *)
(* plane's generate_nfs_file_handle produce the same handle: len 8, first   *)
(* word the rolling hash h*31 + byte (mod 2^32) over all the key's bytes,   *)
(* second word the first XOR 0xdeadbeef; keys longer than 4 bytes included. *)
(***************************************************************************)
C40_SameHandle ==
    (parse.engine # <<>> /\ parse.control # <<>>) =>
        /\ parse.engine = parse.control
        /\ parse.engine.len = 8
        /\ parse.engine.w0 = HashFrom(parse.key, 1, Word(0, 0), Len(parse.key))
        /\ parse.engine.w1 = XorDeadBeef(parse.engine.w0)

\* The two sides agree on every key of at most four bytes.
C40_ShortKeysAgree ==
    (parse.engine # <<>> /\ parse.control # <<>> /\ Len(parse.key) <= 4) =>
        parse.engine = parse.control

=============================================================================
